---- MODULE Spec2Model ----
(***************************************************************************)
(* Trigger core of the rusEFI firmware: the per-bank/per-cam VVT sync      *)
(* timestamps, the primary trigger decoder seen through the callbacks of   *)
(* Engine (TriggerStateListener), the RPM state driven by the periodic     *)
(* slow callback, and the housekeeping pass doPeriodicSlowCallback.        *)
(*                                                                         *)
(* Time is counted in ticks of the efitick_t clock, scaled so that one     *)
(* second is NT_PER_SECOND ticks.                                          *)
(***************************************************************************)
EXTENDS Integers, Sequences, FiniteSets, TLC

\* ---------------------------------------------------------------- bounds
\* number of clock ticks in half a second (scale of the model clock)
TicksPerHalfSecond == 2
\* the clock stops advancing here
MaxTime == 12
\* the clock stops advancing here when only the VVT inputs are driven
MaxVvtTime == 6
\* the clock stops advancing here when the VVT interrupt preempts the pass
MaxRaceTime == 5
\* cap of totalTriggerErrorCounter in the guards
MaxErrors == 3
\* the clock stops advancing here when angle-based events are scheduled
MaxScheduleTime == 8
\* the angle-based events that can be registered, each at most once
MaxEvents == 2
\* the clock stops advancing here when the noise filter is in use
MaxNoiseTime == 9
\* the clock stops advancing here when the watchdog is followed
MaxStallTime == 6
\* the number of cells of engine_configuration_s the console can write
ConfigSize == 2
\* the console stops writing once the configuration version is this
MaxConfigVersion == 3
\* the slow ADC stops reading after this many successful reads, and after
\* this many failed ones
MaxAdcReads == 4
\* the threads that use the SPI buses
MaxSpiThreads == 3
\* the clock stops advancing here when the shutdown logic is followed
MaxShutdownTime == 7
\* the clock stops advancing here when the flash write is followed
MaxFlashTime == 8
\* the clock stops advancing here when the console outputs are published
MaxPublishTime == 5

\* the 60-2 wheel of the periodic generator turns once in this many ticks
WheelCycleTicks == 120
\* the clock stops advancing here when the 60-2 wheel is driven
MaxWheelTime == 250

NT_PER_SECOND == 2 * TicksPerHalfSecond

\* ------------------------------------------------------------- constants
BANKS_COUNT == 2
CAMS_PER_BANK == 2
Banks == 0 .. (BANKS_COUNT - 1)
Cams == 0 .. (CAMS_PER_BANK - 1)

\* phases a VVT decoder can report at its sync event
VvtPhases == {10, 20}
\* what getVVTPosition answers when there is no usable VVT sync
VVT_UNKNOWN == -1

\* ------------------------------------------------------ trigger waveform
\* The primary wheel of the model: TriggerLength teeth followed by one missing
\* tooth, one event per tooth.  ToothTicks[i] is the time from event i-1 to
\* event i at the speed the periodic generator turns the wheel.
ToothTicks == <<1, 1, 2>>
TriggerLength == Len(ToothTicks)
\* trigger channels: eventCount[0..2], expectedEventCount[0..2]
Channels == 1 .. 3
T_PRIMARY == 1
T_SECONDARY == 2
\* channels the hardware delivers edges on
InputChannels == {T_PRIMARY, T_SECONDARY}

\* states of RpmCalculator
RpmStates == {"STOPPED", "SPINNING_UP", "RUNNING"}
\* the timer was never reset
NEVER == -1

\* ------------------------------------------------------- TriggerWaveform
\* Angles are kept in units of 1/AngleUnitsPerDegree of a degree, so that every
\* angle the builders compute is a whole number; an event is stored as the
\* builders' addEvent stores it, as a fraction of the cycle, here in units of
\* 1/FullCycle.
AngleUnitsPerDegree == 30
Deg(x) == AngleUnitsPerDegree * x
FOUR_STROKE_ENGINE_CYCLE == 720
FullCycle == Deg(FOUR_STROKE_ENGINE_CYCLE)
\* 0.1 degree
TenthOfDegree == AngleUnitsPerDegree \div 10
NO_LEFT_FILTER == Deg(-1)
NO_RIGHT_FILTER == Deg(1000)

\* TriggerWaveform::getCycleDuration, in degrees
getCycleDuration(operationMode) ==
    IF operationMode = "FOUR_STROKE_CAM_SENSOR" THEN 720 ELSE 360

\* TriggerWaveform::initialize: the event list is reset
initialize(operationMode) ==
    [ operationMode |-> operationMode,
      events |-> <<>>,
      shapeDefinitionError |-> FALSE,
      isSynchronizationNeeded |-> TRUE,
      syncRatio |-> [from |-> 2, to |-> 0, den |-> 1] ]

\* TriggerWaveform::addEvent: the angle is a fraction of the cycle in (0, 1];
\* an angle not above the previous one is a shape-definition error and the
\* event is not stored
addEvent(s, angle, ch, state) ==
    IF angle <= 0 \/ angle > FullCycle
    THEN [s EXCEPT !.shapeDefinitionError = TRUE]
    ELSE IF Len(s.events) > 0 /\ angle <= s.events[Len(s.events)].angle
    THEN [s EXCEPT !.shapeDefinitionError = TRUE]
    ELSE [s EXCEPT !.events = Append(@, [angle |-> angle, ch |-> ch, state |-> state])]

\* addEvent720(angle): addEvent(angle / 720)
addEvent720(s, angle, ch, state) == addEvent(s, angle, ch, state)

\* addEventAngle(angle): addEvent(angle / getCycleDuration())
addEventAngle(s, angle, ch, state) ==
    addEvent(s, (angle * FOUR_STROKE_ENGINE_CYCLE) \div getCycleDuration(s.operationMode),
             ch, state)

\* the filter keeping an angle that lies on a bound
addEventClamped_inclusive(s, angle, ch, state, filterLeft, filterRight) ==
    IF angle >= filterLeft /\ angle <= filterRight
    THEN addEvent(s, angle, ch, state)
    ELSE s

\* addEventClamped: an angle not strictly inside the filter bounds is dropped
addEventClamped(s, angle, ch, state, filterLeft, filterRight) ==
    IF angle > filterLeft /\ angle < filterRight
    THEN addEvent(s, angle, ch, state)
    ELSE s

\* one call a builder makes on the waveform
Call720(angle, ch, state) ==
    [f |-> "addEvent720", angle |-> angle, ch |-> ch, state |-> state,
     filterLeft |-> NO_LEFT_FILTER, filterRight |-> NO_RIGHT_FILTER]
CallAngle(angle, ch, state) ==
    [f |-> "addEventAngle", angle |-> angle, ch |-> ch, state |-> state,
     filterLeft |-> NO_LEFT_FILTER, filterRight |-> NO_RIGHT_FILTER]
CallClamped(angle, ch, state, filterLeft, filterRight) ==
    [f |-> "addEventClamped", angle |-> angle, ch |-> ch, state |-> state,
     filterLeft |-> filterLeft, filterRight |-> filterRight]

ApplyCall(s, c) ==
    IF c.f = "addEvent720" THEN addEvent720(s, c.angle, c.ch, c.state)
    ELSE IF c.f = "addEventAngle" THEN addEventAngle(s, c.angle, c.ch, c.state)
    ELSE addEventClamped(s, c.angle, c.ch, c.state, c.filterLeft, c.filterRight)

\* addSkippedToothTriggerEvents: the calls it makes, a rise and a fall per
\* tooth present, the last fall at the end of the cycle.  toothWidth is given
\* in percent.
addSkippedToothTriggerEvents(wheel, totalTeethCount, skippedCount, toothWidth, offset, engineCycle, filterLeft, filterRight) ==
    LET angleDown(i) ==
            (engineCycle * (100 * i + (100 - toothWidth))) \div (100 * totalTeethCount)
        angleUp(i) == (engineCycle * (i + 1)) \div totalTeethCount
        present == totalTeethCount - skippedCount - 1
    IN  [k \in 1 .. 2 * present |->
            IF k % 2 = 1
            THEN CallClamped(offset + angleDown((k - 1) \div 2), wheel, "TV_RISE",
                             filterLeft, filterRight)
            ELSE CallClamped(offset + angleUp((k - 2) \div 2), wheel, "TV_FALL",
                             filterLeft, filterRight)]
        \o << CallClamped(offset + angleDown(present), wheel, "TV_RISE",
                          filterLeft, filterRight),
              CallClamped(offset + engineCycle, wheel, "TV_FALL",
                          filterLeft, filterRight) >>

\* setTriggerSynchronizationGap(ratio): the threshold num / den the ratio has
\* to exceed, kept with to = 0 for "no upper end"
setTriggerSynchronizationGap(num, den) == [from |-> num, to |-> 0, den |-> den]
\* setTriggerSynchronizationGap2(from, to): the band from / den .. to / den
setTriggerSynchronizationGap2(from, to, den) == [from |-> from, to |-> to, den |-> den]
\* the band a waveform has when its builder sets none
DefaultSynchronizationGap == setTriggerSynchronizationGap(2, 1)

\* Each builder: the operation mode it initializes the waveform with, the
\* calls it makes after initialize(), and its synchronization gap.
\* trigger_misc.cpp:12-24
configureFiatIAQ_P8 ==
    LET width == 60
    IN  [ operationMode |-> "FOUR_STROKE_CAM_SENSOR",
          isSynchronizationNeeded |-> TRUE,
          syncRatio |-> setTriggerSynchronizationGap(3, 1),
          calls |-> << Call720(Deg(width), T_PRIMARY, "TV_RISE"),
                       Call720(Deg(180), T_PRIMARY, "TV_FALL"),
                       Call720(Deg(180 + width), T_PRIMARY, "TV_RISE"),
                       Call720(Deg(720), T_PRIMARY, "TV_FALL") >> ]

\* trigger_misc.cpp:27-50
configureTriTach ==
    LET toothWidth == 50
        engineCycle == FullCycle
        totalTeethCount == 135
        offset == 0
        angleDown == (engineCycle * (100 - toothWidth)) \div (100 * totalTeethCount)
        angleUp == engineCycle \div totalTeethCount
    IN  [ operationMode |-> "FOUR_STROKE_CRANK_SENSOR",
          isSynchronizationNeeded |-> FALSE,
          syncRatio |-> DefaultSynchronizationGap,
          calls |->
            << CallClamped(offset + angleDown, T_PRIMARY, "TV_RISE",
                           NO_LEFT_FILTER, NO_RIGHT_FILTER),
               CallClamped(offset + angleDown + TenthOfDegree, T_SECONDARY, "TV_RISE",
                           NO_LEFT_FILTER, NO_RIGHT_FILTER),
               CallClamped(offset + angleUp, T_PRIMARY, "TV_FALL",
                           NO_LEFT_FILTER, NO_RIGHT_FILTER),
               CallClamped(offset + angleUp + TenthOfDegree, T_SECONDARY, "TV_FALL",
                           NO_LEFT_FILTER, NO_RIGHT_FILTER) >>
            \o addSkippedToothTriggerEvents(T_SECONDARY, totalTeethCount, 0, toothWidth,
                    offset, engineCycle, FullCycle \div 135, NO_RIGHT_FILTER) ]

\* trigger_misc.cpp:52-72
configureFordST170 ==
    LET width == 10
        total == getCycleDuration("FOUR_STROKE_CAM_SENSOR") \div 8
        tooth(n) == << CallAngle(Deg(n * total - width), T_PRIMARY, "TV_RISE"),
                       CallAngle(Deg(n * total), T_PRIMARY, "TV_FALL") >>
    IN  [ operationMode |-> "FOUR_STROKE_CAM_SENSOR",
          isSynchronizationNeeded |-> TRUE,
          syncRatio |-> DefaultSynchronizationGap,
          calls |-> tooth(1) \o tooth(2) \o tooth(4) \o tooth(6) \o tooth(8) ]

\* the Daihatsu wheel without its last tooth
configureDaihatsu4_threeTeeth ==
    LET width == 10
        cycle == getCycleDuration("FOUR_STROKE_CAM_SENSOR")
        tooth(a) == << CallAngle(Deg(a - width), T_PRIMARY, "TV_RISE"),
                       CallAngle(Deg(a), T_PRIMARY, "TV_FALL") >>
    IN  [ operationMode |-> "FOUR_STROKE_CAM_SENSOR",
          isSynchronizationNeeded |-> TRUE,
          syncRatio |-> setTriggerSynchronizationGap(125, 1000),
          calls |-> tooth(30) \o tooth(cycle \div 3) \o tooth((cycle \div 3) * 2) ]

\* trigger_misc.cpp:74-94
configureDaihatsu4 ==
    LET width == 10
        cycle == getCycleDuration("FOUR_STROKE_CAM_SENSOR")
        tooth(a) == << CallAngle(Deg(a - width), T_PRIMARY, "TV_RISE"),
                       CallAngle(Deg(a), T_PRIMARY, "TV_FALL") >>
    IN  [ operationMode |-> "FOUR_STROKE_CAM_SENSOR",
          isSynchronizationNeeded |-> TRUE,
          syncRatio |-> setTriggerSynchronizationGap(125, 1000),
          calls |-> tooth(30) \o tooth(cycle \div 3) \o tooth((cycle \div 3) * 2)
                    \o tooth(cycle) ]

\* trigger_central.h:113-129
setSkodaFavorit ==
    LET m == 2
    IN  [ operationMode |-> "FOUR_STROKE_CRANK_SENSOR",
          isSynchronizationNeeded |-> TRUE,
          syncRatio |-> setTriggerSynchronizationGap(391, 100),
          calls |-> << Call720(Deg(m * 46), T_PRIMARY, "TV_RISE"),
                       Call720(Deg(m * 177), T_PRIMARY, "TV_FALL"),
                       Call720(Deg(m * 180), T_PRIMARY, "TV_RISE"),
                       Call720(Deg(m * 183), T_PRIMARY, "TV_FALL"),
                       Call720(Deg(m * 226), T_PRIMARY, "TV_RISE"),
                       Call720(Deg(m * 360), T_PRIMARY, "TV_FALL") >> ]

\* trigger_central.h:131-148
setVwConfiguration ==
    LET totalTeethCount == 60
        skippedCount == 2
        engineCycle == FullCycle
        toothWidth == 50
        angleDown == (engineCycle * (100 * (totalTeethCount - skippedCount - 1)
                                     + (100 - toothWidth))) \div (100 * totalTeethCount)
    IN  [ operationMode |-> "FOUR_STROKE_CRANK_SENSOR",
          isSynchronizationNeeded |-> TRUE,
          syncRatio |-> setTriggerSynchronizationGap2(16, 40, 10),
          calls |->
            addSkippedToothTriggerEvents(T_PRIMARY, 60, 2, toothWidth, 0, engineCycle,
                                         NO_LEFT_FILTER, Deg(690))
            \o << CallClamped(0 + angleDown + Deg(12), T_PRIMARY, "TV_RISE",
                              NO_LEFT_FILTER, NO_RIGHT_FILTER),
                  CallClamped(0 + engineCycle, T_PRIMARY, "TV_FALL",
                              NO_LEFT_FILTER, NO_RIGHT_FILTER) >> ]

\* the wheel the decoder of this model is driven with, a skipped-tooth wheel
\* like setVwConfiguration's with fewer teeth: one event per tooth, event i
\* at the end of tooth i
RECURSIVE SumTicks(_)
SumTicks(n) == IF n = 0 THEN 0 ELSE ToothTicks[n] + SumTicks(n - 1)
CycleTicks == SumTicks(TriggerLength)
configureSmallWheel ==
    [ operationMode |-> "FOUR_STROKE_CRANK_SENSOR",
      isSynchronizationNeeded |-> TRUE,
      syncRatio |-> setTriggerSynchronizationGap2(16, 40, 10),
      calls |-> [i \in 1 .. TriggerLength |->
                    CallClamped((FullCycle * SumTicks(i)) \div CycleTicks, T_PRIMARY,
                                "TV_RISE", NO_LEFT_FILTER, NO_RIGHT_FILTER)] ]

\* a trigger type with no builder: no event is added
configureNothing ==
    [ operationMode |-> "FOUR_STROKE_CRANK_SENSOR",
      isSynchronizationNeeded |-> TRUE,
      syncRatio |-> DefaultSynchronizationGap,
      calls |-> <<>> ]

\* the trigger types whose builders are modelled
BuilderTypes == {"TT_FIAT_IAW_P8", "TT_TRI_TACH", "TT_FORD_ST170", "TT_DAIHATSU",
                 "TT_SKODA_FAVORIT", "TT_60_2_VW"}

Builder(triggerType) ==
    CASE triggerType = "TT_FIAT_IAW_P8" -> configureFiatIAQ_P8
      [] triggerType = "TT_TRI_TACH" -> configureTriTach
      [] triggerType = "TT_FORD_ST170" -> configureFordST170
      [] triggerType = "TT_DAIHATSU" -> configureDaihatsu4
      [] triggerType = "TT_SKODA_FAVORIT" -> setSkodaFavorit
      [] triggerType = "TT_60_2_VW" -> setVwConfiguration
      [] triggerType = "TT_SMALL_WHEEL" -> configureSmallWheel
      [] OTHER -> configureNothing

\* the waveform a builder starts from: initialize() and the builder's settings
BuilderStart(b) ==
    [initialize(b.operationMode) EXCEPT
        !.isSynchronizationNeeded = b.isSynchronizationNeeded,
        !.syncRatio = b.syncRatio]

\* the waveform s after the calls lo .. hi of a builder, made in their order
RECURSIVE ApplyCalls(_, _, _, _)
ApplyCalls(s, calls, lo, hi) ==
    IF lo > hi THEN s
    ELSE IF lo = hi THEN ApplyCall(s, calls[lo])
    ELSE CHOOSE r \in { ApplyCalls(half, calls, ((lo + hi) \div 2) + 1, hi) :
                          half \in {ApplyCalls(s, calls, lo, (lo + hi) \div 2)} } : TRUE

\* TriggerWaveform::initializeTriggerWaveform: the builder of the configured
\* trigger type is run; a waveform left without events is a shape-definition
\* error
BuildTriggerWaveform(triggerType) ==
    LET b == Builder(triggerType)
        s == ApplyCalls(BuilderStart(b), b.calls, 1, Len(b.calls))
    IN  IF Len(s.events) = 0 THEN [s EXCEPT !.shapeDefinitionError = TRUE] ELSE s

\* TriggerWaveform::getLength
getLength(s) == Len(s.events)

\* TriggerWaveform::expectedEventCount: the events of each channel
expectedEventCount(s) ==
    [ch \in Channels |-> Cardinality({i \in 1 .. Len(s.events) : s.events[i].ch = ch})]

\* the angular distance from the event before event i to event i, the first
\* event following the last one of the previous cycle
EventDelta(s, i) ==
    IF i = 1 THEN s.events[1].angle + FullCycle - s.events[Len(s.events)].angle
    ELSE s.events[i].angle - s.events[i - 1].angle

\* the event before event i around the cycle
PreviousEvent(s, i) == IF i = 1 THEN Len(s.events) ELSE i - 1

\* the gap test without the lower end of the band
IsSynchronizationGap_noLowerBound(s, cur, prev) ==
    /\ prev > 0
    /\ s.syncRatio.den * cur <= s.syncRatio.to * prev

\* the synchronization gap: the ratio of the current to the previous tooth
\* duration exceeds the waveform's threshold or lies in its band
IsSynchronizationGap(s, cur, prev) ==
    /\ prev > 0
    /\ IF s.syncRatio.to = 0
       THEN s.syncRatio.den * cur > s.syncRatio.from * prev
       ELSE /\ s.syncRatio.den * cur >= s.syncRatio.from * prev
            /\ s.syncRatio.den * cur <= s.syncRatio.to * prev

\* the events of the waveform at which the gap criterion matches when the
\* wheel turns at constant speed
SynchPoints(s) ==
    {i \in 1 .. Len(s.events) :
        IsSynchronizationGap(s, EventDelta(s, i), EventDelta(s, PreviousEvent(s, i)))}

\* calculateTriggerSynchPoint: the event the decoder locks on, 0 when there
\* is none
calculateTriggerSynchPoint(s) ==
    IF SynchPoints(s) = {} THEN 0
    ELSE CHOOSE i \in SynchPoints(s) : \A j \in SynchPoints(s) : i <= j

\* the configuration thread is not building anything; step is its position
\* in Engine::initializeTriggerWaveform, locked says it holds the critical
\* section
CfgIdle ==
    [pc |-> "idle", triggerType |-> "TT_SMALL_WHEEL", call |-> 0,
     step |-> 0, vvtMode |-> "VVT_INACTIVE", locked |-> FALSE]

VARIABLES
    nowNt,          \* getTimeNowNt(): the free-running tick counter
    engine,         \* the Engine object with its triggerCentral and rpmCalculator
    slowPc,         \* position of the slow-callback thread in its VVT loop
    slowNowNt,      \* doPeriodicSlowCallback's local nowNt
    gen,            \* the periodic edge generator: next event, its time, events fed
    cfgThread,      \* the thread (re)building the trigger waveform: its position
    lastOp          \* the handler that ran last

vars == <<nowNt, engine, slowPc, slowNowNt, gen, cfgThread, lastOp>>

\* the [bank][cam] entries in the order the housekeeping loop visits them
Entries == <<<<0, 0>>, <<0, 1>>, <<1, 0>>, <<1, 1>>>>

\* the angle-based events of the model
EventIds == 1 .. MaxEvents

\* spi_device_e: the buses getSpiDevice has a driver for, and the threads
SpiDevices == {"SPI_DEVICE_1", "SPI_DEVICE_2"}
SpiThreads == 1 .. MaxSpiThreads

\* trigger_event_e: the hardware edges that are counted
HwEventTypes ==
    {"SHAFT_PRIMARY_FALLING", "SHAFT_PRIMARY_RISING",
     "SHAFT_SECONDARY_FALLING", "SHAFT_SECONDARY_RISING"}

\* the edge the model delivers on a channel is its rising edge
RisingEdgeOf(ch) ==
    IF ch = T_PRIMARY THEN "SHAFT_PRIMARY_RISING" ELSE "SHAFT_SECONDARY_RISING"

\* the fields of TunerStudioOutputChannels written from the trigger core
TsOutputChannelsInit ==
    [ totalTriggerErrorCounter |-> 0, orderingErrorCounter |-> 0,
      debugIntField1 |-> 0, debugIntField2 |-> 0,
      debugIntField4 |-> 0, debugIntField5 |-> 0,
      debugFloatField1 |-> 0, debugFloatField2 |-> 0 ]

\* getEngineCycle: the length of the engine cycle in degrees, 360 for a
\* two stroke engine and 720 for the others
getEngineCycle(operationMode) ==
    IF operationMode = "TWO_STROKE" THEN 360 ELSE FOUR_STROKE_ENGINE_CYCLE

\* a reset that leaves the field as it finds it
reset_keep(engineCycle) == engineCycle

\* Engine::reset, engine.h:750-754, on the engineCycle field
reset(engineCycle) == getEngineCycle("FOUR_STROKE_CRANK_SENSOR")

EngineInit ==
    [ \* TriggerCentral
      vvtSyncTimeNt |-> [b \in Banks |-> [c \in Cams |-> 0]],
      vvtPosition |-> [b \in Banks |-> [c \in Cams |-> 0]],
      m_lastEventTimer |-> NEVER,
      \* TriggerState
      shaft_is_synchronized |-> FALSE,
      current_index |-> 0,
      eventCount |-> <<0, 0, 0>>,
      toothed_previous_time |-> 0,
      toothDurations |-> <<0, 0>>,
      totalTriggerErrorCounter |-> 0,
      orderingErrorCounter |-> 0,
      someSortOfTriggerError |-> FALSE,
      \* RpmCalculator
      rpmState |-> "STOPPED",
      rpmValue |-> 0,
      \* TriggerCentral::triggerShape
      triggerShape |-> BuildTriggerWaveform("TT_SMALL_WHEEL"),
      triggerShapeSynchPointIndex |->
          calculateTriggerSynchPoint(BuildTriggerWaveform("TT_SMALL_WHEEL")),
      engineCycleEventCount |-> getLength(BuildTriggerWaveform("TT_SMALL_WHEEL")),
      \* the trigger type triggerShape was built for, the VVT mode each
      \* vvtShape was built for, the trigger type of the prepared outputs
      triggerType |-> "TT_SMALL_WHEEL",
      vvtShape |-> [i \in Cams |-> "VVT_INACTIVE"],
      outputSignalsFor |-> "TT_SMALL_WHEEL",
      \* Engine
      isSpinning |-> FALSE,
      isRunningPwmTest |-> FALSE,
      isRunningBenchTest |-> FALSE,
      pinsOn |-> FALSE,
      \* engine.h:300
      directSelfStimulation |-> FALSE,
      \* engine.h:221, engine.h:114, and the cells of engineConfiguration
      globalConfigurationVersion |-> 0,
      versionForConfigurationListeners |-> 0,
      engineConfiguration |-> [offset \in 0 .. ConfigSize - 1 |-> 0],
      \* engine.h:226, no initializer: the zero of static storage, then the
      \* constructor's reset(), engine.h:733-735
      engineCycle |-> reset(0),
      \* the slow ADC, part_001:98, and where initHardware is
      slowAdcCounter |-> 0,
      slowAdcConversionCount |-> 0,
      slowAdcErrorsCount |-> 0,
      initHardware |-> "start",
      lastAdcCounter |-> 0,
      \* applyNewHardwareSettings: the changed settings and the steps run
      hwChanged |-> {},
      hwLog |-> <<>>,
      \* the owner of each SPI bus (0: free) and where each thread is
      spiOwner |-> [device \in SpiDevices |-> 0],
      spiThread |-> [thread \in SpiThreads |-> [pc |-> "idle", device |-> "SPI_NONE"]],
      \* the 'stopengine' request and the ignition, engine.h:206, 215
      stopEngineRequestTimeNt |-> 0,
      ignitionOnTimeNt |-> 0,
      \* sensors.vBatt in volts, engine.h:689; the idle motor still moving
      vBatt |-> 12,
      idleMotorBusy |-> FALSE,
      \* history: the time of the latest stop request
      stopRequestedAt |-> 0,
      \* TriggerCentral's counters of hardware edges, getHwEventCounter
      hwEventCounters |-> [signal \in HwEventTypes |-> 0],
      \* the output channels read by the tuning console
      tsOutputChannels |-> TsOutputChannelsInit,
      \* TriggerNoiseFilter, trigger_central.h:22-32, per input channel
      useNoiselessTriggerDecoder |-> FALSE,
      lastSignalTimes |-> [ch \in InputChannels |-> 0],
      accumSignalPeriods |-> [ch \in InputChannels |-> 0],
      accumSignalPrevPeriods |-> [ch \in InputChannels |-> 0],
      \* the pending angle-based events (angleBasedEventsHead), and how often
      \* each event was registered and fired
      angleBasedEvents |-> {},
      registeredCount |-> [id \in EventIds |-> 0],
      firedCount |-> [id \in EventIds |-> 0],
      ignitionEventsReady |-> FALSE,
      triggerDecoderErrorPin |-> FALSE,
      triggerErrorDetection |-> <<>>,
      \* what the handler that ran last did: the listener callbacks it made,
      \* the warning codes it raised, the event counts it validated
      calls |-> <<>>,
      warnings |-> {},
      validated |-> <<>>,
      \* the events it fired, and those of them it fired late
      fired |-> {},
      firedLate |-> {} ]

\* entry of a handler: nothing called, nothing raised yet
Enter(e) ==
    [e EXCEPT !.calls = <<>>, !.warnings = {}, !.validated = <<>>,
              !.fired = {}, !.firedLate = {}]
Call(e, name) == [e EXCEPT !.calls = Append(@, name)]
warning(e, code) == [e EXCEPT !.warnings = @ \cup {code}]

Init ==
    /\ nowNt = 1
    /\ engine = EngineInit
    /\ slowPc = 0
    /\ slowNowNt = 0
    /\ gen = [index |-> 1, next |-> 1, fed |-> 0, cycleTicks |-> CycleTicks]
    /\ cfgThread = CfgIdle
    /\ lastOp = "init"

\* the generator may start at any tooth of the wheel
InitPeriodic ==
    /\ nowNt = 1
    /\ engine = EngineInit
    /\ slowPc = 0
    /\ slowNowNt = 0
    /\ gen \in [index : 1 .. TriggerLength, next : {1}, fed : {0}, cycleTicks : {CycleTicks}]
    /\ cfgThread = CfgIdle
    /\ lastOp = "init"

\* ------------------------------------------------------------ the clock
Tick(limit) ==
    /\ nowNt < limit
    /\ nowNt' = nowNt + 1
    /\ lastOp' = "tick"
    /\ UNCHANGED <<engine, slowPc, slowNowNt, gen, cfgThread>>

\* ------------------------------------------------- VVT edge (interrupt)
\* hwHandleVvtCamSignal: on the sync event of the bank/cam decoder the phase
\* and the sync timestamp are recorded.
VvtSyncRecorded(e, b, c, phase, t) ==
    [e EXCEPT !.vvtPosition[b][c] = phase, !.vvtSyncTimeNt[b][c] = t]

hwHandleVvtCamSignal(b, c, isSync, phase) ==
    /\ ~cfgThread.locked
    /\ engine' = IF isSync THEN VvtSyncRecorded(Enter(engine), b, c, phase, nowNt)
                 ELSE Enter(engine)
    /\ lastOp' = "vvt"
    /\ UNCHANGED <<nowNt, slowPc, slowNowNt, gen, cfgThread>>

\* ---------------------------------------------- housekeeping, VVT part
\* the comparison taken strictly: a stamp exactly one second old survives
StaleVvtCleared_strict(stamp, t) ==
    IF t - stamp > NT_PER_SECOND THEN 0 ELSE stamp

\* one iteration of the loop body, engine_controller.cpp:230-234
StaleVvtCleared(stamp, t) ==
    IF t - stamp >= NT_PER_SECOND THEN 0 ELSE stamp

\* the outer loop starting at bank 1
ClearStaleVvtSync_fromBank1(e, t) ==
    [e EXCEPT !.vvtSyncTimeNt[1] = [c \in Cams |-> StaleVvtCleared(e.vvtSyncTimeNt[1][c], t)]]

\* the whole double loop, engine_controller.cpp:227-236
ClearStaleVvtSync(e, t) ==
    [e EXCEPT !.vvtSyncTimeNt =
        [b \in Banks |-> [c \in Cams |-> StaleVvtCleared(e.vvtSyncTimeNt[b][c], t)]]]

\* TriggerCentral::getVVTPosition
getVVTPosition(e) ==
    IF e.vvtSyncTimeNt[0][0] = 0 THEN VVT_UNKNOWN ELSE e.vvtPosition[0][0]


\* ------------------------------------------------------------ RpmCalculator
\* RpmCalculator::setStopSpinning
setStopSpinning(e) == [e EXCEPT !.rpmState = "STOPPED", !.rpmValue = 0]

\* RpmCalculator::setSpinningUp
setSpinningUp(e, t) ==
    IF e.rpmState = "STOPPED" THEN [e EXCEPT !.rpmState = "SPINNING_UP"] ELSE e

\* GET_RPM()
GET_RPM(e) == e.rpmValue

\* RpmCalculator::isStopped
isStopped(e) == e.rpmState = "STOPPED"

\* instant RPM from the duration of the gap tooth, which spans the angle
\* before the synchronization event
InstantRpm(e, gapDuration) ==
    IF e.triggerShapeSynchPointIndex = 0 THEN 0
    ELSE (60 * NT_PER_SECOND * EventDelta(e.triggerShape, e.triggerShapeSynchPointIndex))
            \div (gapDuration * FullCycle)

\* Timer::getElapsedSeconds compared with a number of ticks
ElapsedAtLeast(timer, t, ticks) == timer = NEVER \/ t - timer >= ticks

\* TriggerCentral::engineMovedRecently, trigger_central.h:52-55:
\* getTimeSinceTriggerEvent(now) < 1.0f
engineMovedRecently(e, t) == ~ElapsedAtLeast(e.m_lastEventTimer, t, NT_PER_SECOND)

\* RpmCalculator::checkIfSpinning
checkIfSpinning(e, t) == engineMovedRecently(e, t)

\* ------------------------------------------------- Engine's trigger callbacks
\* TriggerState::setTriggerErrorState
setTriggerErrorState(e) == [e EXCEPT !.someSortOfTriggerError = TRUE]

\* TriggerState::validateEventCounters: true when a channel's count of the
\* completed cycle differs from the waveform's
validateEventCounters(e) ==
    \E ch \in Channels : e.eventCount[ch] # expectedEventCount(e.triggerShape)[ch]

\* the handler forgetting the counter
OnTriggerStateDecodingError_noCount(e) ==
    setTriggerErrorState(
        warning(Call(e, "OnTriggerStateDecodingError"), "CUSTOM_SYNC_COUNT_MISMATCH"))

\* the handler dropping synchronization on every mismatch
OnTriggerStateDecodingError_desync(e) ==
    [setTriggerErrorState(
        warning(Call(e, "OnTriggerStateDecodingError"), "CUSTOM_SYNC_COUNT_MISMATCH"))
     EXCEPT !.totalTriggerErrorCounter = @ + 1, !.shaft_is_synchronized = FALSE]

\* Engine::OnTriggerStateDecodingError, engine.h:780-805
OnTriggerStateDecodingError(e) ==
    LET e1 == warning(Call(e, "OnTriggerStateDecodingError"), "CUSTOM_SYNC_COUNT_MISMATCH")
        e2 == setTriggerErrorState(e1)
    IN  [e2 EXCEPT !.totalTriggerErrorCounter = @ + 1]

\* Engine::OnTriggerStateProperState, engine.h:807-809
OnTriggerStateProperState(e, t) ==
    setSpinningUp(Call(e, "OnTriggerStateProperState"), t)

\* the loss of synchronization starting the error count again
OnTriggerSynchronizationLost_reset(e) ==
    [setStopSpinning(Call(e, "OnTriggerSynchronizationLost")) EXCEPT
        !.totalTriggerErrorCounter = 0]

\* Engine::OnTriggerSynchronizationLost, engine.h:811-814
OnTriggerSynchronizationLost(e) ==
    setStopSpinning(Call(e, "OnTriggerSynchronizationLost"))

\* the handler warning without marking the decoder
OnTriggerInvalidIndex_noState(e, currentIndex) ==
    LET e1 == Call(e, "OnTriggerInvalidIndex")
    IN  IF GET_RPM(e1) # 0 THEN warning(e1, "CUSTOM_SYNC_ERROR") ELSE e1

\* Engine::OnTriggerInvalidIndex, engine.h:816-822
OnTriggerInvalidIndex(e, currentIndex) ==
    LET e1 == Call(e, "OnTriggerInvalidIndex")
    IN  IF GET_RPM(e1) # 0
        THEN setTriggerErrorState(warning(e1, "CUSTOM_SYNC_ERROR"))
        ELSE e1

\* cyclic_buffer::add, keeping the newest ErrorBufferSize entries
ErrorBufferSize == 2
BufferAdd(buf, v) ==
    IF Len(buf) < ErrorBufferSize THEN Append(buf, v) ELSE Append(Tail(buf), v)

\* the pin and the buffer written only when the counts mismatched
OnTriggerSyncronization_onError(e, wasSynchronized, obdWarning) ==
    LET e0 == Call(e, IF wasSynchronized THEN "OnTriggerSyncronization(true)"
                      ELSE "OnTriggerSyncronization(false)")
    IN  IF wasSynchronized
        THEN LET isDecodingError == validateEventCounters(e0)
                 e1 == [e0 EXCEPT !.validated = e0.eventCount]
                 e2 == IF isDecodingError
                       THEN [OnTriggerStateDecodingError(e1) EXCEPT
                                !.triggerDecoderErrorPin = TRUE,
                                !.triggerErrorDetection = BufferAdd(@, TRUE)]
                       ELSE e1
             IN  IF obdWarning THEN warning(e2, "CUSTOM_OBD_TRG_DECODING") ELSE e2
        ELSE e0

\* the first synchronization validated like every other
OnTriggerSyncronization_always(e, wasSynchronized, obdWarning) ==
    LET e0 == Call(e, IF wasSynchronized THEN "OnTriggerSyncronization(true)"
                      ELSE "OnTriggerSyncronization(false)")
        isDecodingError == validateEventCounters(e0)
        e1 == [e0 EXCEPT !.triggerDecoderErrorPin = isDecodingError,
                         !.validated = e0.eventCount]
        e2 == IF isDecodingError THEN OnTriggerStateDecodingError(e1) ELSE e1
    IN  [e2 EXCEPT !.triggerErrorDetection = BufferAdd(@, isDecodingError)]

\* Engine::OnTriggerSyncronization, engine.h:824-853.  isTriggerDecoderError
\* only decides a further warning, CUSTOM_OBD_TRG_DECODING, passed as obdWarning.
OnTriggerSyncronization(e, wasSynchronized, obdWarning) ==
    LET e0 == Call(e, IF wasSynchronized THEN "OnTriggerSyncronization(true)"
                      ELSE "OnTriggerSyncronization(false)")
    IN  IF wasSynchronized
        THEN LET isDecodingError == validateEventCounters(e0)
                 e1 == [e0 EXCEPT !.triggerDecoderErrorPin = isDecodingError,
                                  !.validated = e0.eventCount]
                 e2 == IF isDecodingError THEN OnTriggerStateDecodingError(e1) ELSE e1
                 e3 == [e2 EXCEPT !.triggerErrorDetection = BufferAdd(@, isDecodingError)]
             IN  IF obdWarning THEN warning(e3, "CUSTOM_OBD_TRG_DECODING") ELSE e3
        ELSE e0

\* ------------------------------------------------------ the trigger decoder
\* the bound taken inclusively
isValidIndex_inclusive(e) == e.current_index <= getLength(e.triggerShape)

\* TriggerState::isValidIndex
isValidIndex(e) == e.current_index < getLength(e.triggerShape)

\* TriggerState::resetCurrentCycleState
resetCurrentCycleState(e) ==
    [e EXCEPT !.current_index = 0, !.eventCount = <<0, 0, 0>>]

\* TriggerState::nextTriggerEvent; every index past the table is kept as
\* the length of the table
nextTriggerEvent(e) ==
    [e EXCEPT !.current_index = IF @ < getLength(e.triggerShape) THEN @ + 1 ELSE @]

\* the per-channel counter of the current cycle; every count above the
\* length of the table is kept as that length plus one
CountEvent(e, ch) ==
    [e EXCEPT !.eventCount[ch] = IF @ <= getLength(e.triggerShape) THEN @ + 1 ELSE @]

\* RPM at the cycle boundary: known once a full revolution was decoded
rpmShaftPositionCallback(e, wasSynchronized, gapDuration) ==
    IF wasSynchronized
    THEN [e EXCEPT !.rpmState = "RUNNING", !.rpmValue = InstantRpm(e, gapDuration)]
    ELSE e

\* the index left the table and the decoder keeps its synchronization
invalidIndex_keepSync(e) == OnTriggerInvalidIndex(e, e.current_index)

\* the index left the table: report it and drop synchronization
invalidIndex(e) ==
    [OnTriggerInvalidIndex(e, e.current_index) EXCEPT !.shaft_is_synchronized = FALSE]

\* TriggerState::decodeTriggerEvent
decodeTriggerEvent(e, ch, t, obdWarning) ==
    LET isFirstEvent == e.toothed_previous_time = 0
        sincePrevious == t - e.toothed_previous_time
        timedOut == ~isFirstEvent /\ sincePrevious > NT_PER_SECOND
        \* no edge for more than a second: the engine was not turning
        e1 == IF timedOut
              THEN OnTriggerSynchronizationLost(
                       [e EXCEPT !.shaft_is_synchronized = FALSE,
                                 !.toothDurations = <<0, 0>>])
              ELSE e
        currentDuration == IF isFirstEvent \/ timedOut THEN 0 ELSE sincePrevious
        previousDuration == e1.toothDurations[1]
        e2 == [CountEvent(e1, ch) EXCEPT
                  !.toothDurations = <<currentDuration, previousDuration>>,
                  !.toothed_previous_time = t]
        \* a waveform that needs no synchronization is followed by counting
        isSynchronizationPoint ==
            IF e2.triggerShape.isSynchronizationNeeded
            THEN IsSynchronizationGap(e2.triggerShape, currentDuration, previousDuration)
            ELSE \/ ~e2.shaft_is_synchronized
                 \/ e2.current_index >= getLength(e2.triggerShape) - 1
        wasSynchronized == e2.shaft_is_synchronized
        e3 == IF isSynchronizationPoint
              THEN rpmShaftPositionCallback(
                       [resetCurrentCycleState(
                            OnTriggerSyncronization(e2, wasSynchronized, obdWarning))
                        EXCEPT !.shaft_is_synchronized = TRUE],
                       wasSynchronized, currentDuration)
              ELSE nextTriggerEvent(e2)
    IN  IF ~isValidIndex(e3)
        THEN invalidIndex(e3)
        ELSE OnTriggerStateProperState(e3, t)

\* ------------------------------------------------- angle-based scheduling
\* an event is registered for the tooth with the given index
scheduleByAngle(e, id, triggerEventIndex) ==
    [e EXCEPT !.angleBasedEvents = @ \cup {[id |-> id, triggerEventIndex |-> triggerEventIndex]},
              !.registeredCount[id] = @ + 1]

\* the teeth that never came: the cycle started again at index 0 after
\* previousIndex, before the last tooth of the table
SkippedTeeth(e, wasSynchronized, previousIndex) ==
    IF wasSynchronized /\ e.current_index = 0
    THEN (previousIndex + 1) .. (getLength(e.triggerShape) - 1)
    ELSE {}

\* firing an event: it leaves the pending list
FireEvents(e, events) ==
    [e EXCEPT !.angleBasedEvents = @ \ events,
              !.firedCount = [id \in EventIds |->
                  @[id] + Cardinality({ev \in events : ev.id = id})],
              !.fired = @ \cup {ev.id : ev \in events}]

\* the late events fired without being counted as ordering errors
scheduleEventsUntilNextTriggerTooth_uncounted(e, skipped) ==
    LET due == {ev \in e.angleBasedEvents : ev.triggerEventIndex = e.current_index}
        passed == {ev \in e.angleBasedEvents : ev.triggerEventIndex \in skipped}
    IN  [FireEvents(e, due \cup passed) EXCEPT
            !.firedLate = @ \cup {ev.id : ev \in passed}]

\* the events of a tooth fired and kept on the pending list
scheduleEventsUntilNextTriggerTooth_keep(e, skipped) ==
    LET due == {ev \in e.angleBasedEvents : ev.triggerEventIndex = e.current_index}
        passed == {ev \in e.angleBasedEvents : ev.triggerEventIndex \in skipped}
    IN  [FireEvents(e, due \cup passed) EXCEPT
            !.angleBasedEvents = e.angleBasedEvents,
            !.orderingErrorCounter = @ + Cardinality(passed),
            !.firedLate = @ \cup {ev.id : ev \in passed}]

\* on a valid tooth: the pending events of this tooth are fired, and so are
\* those whose tooth has passed, each of these counted as an ordering error
scheduleEventsUntilNextTriggerTooth(e, skipped) ==
    LET due == {ev \in e.angleBasedEvents : ev.triggerEventIndex = e.current_index}
        passed == {ev \in e.angleBasedEvents : ev.triggerEventIndex \in skipped}
    IN  [FireEvents(e, due \cup passed) EXCEPT
            !.orderingErrorCounter = @ + Cardinality(passed),
            !.firedLate = @ \cup {ev.id : ev \in passed}]

\* Engine::onTriggerSignalEvent, engine.h:729-731
onTriggerSignalEvent(e, t) == [e EXCEPT !.isSpinning = TRUE]

\* TriggerCentral::handleShaftSignal
handleShaftSignal(e, ch, t, obdWarning) ==
    LET e1 == onTriggerSignalEvent(Enter(e), t)
        e2 == [e1 EXCEPT !.m_lastEventTimer = t,
                         !.hwEventCounters[RisingEdgeOf(ch)] = @ + 1]
    IN  \* nothing is decoded against a waveform with a shape-definition error
        IF e2.triggerShape.shapeDefinitionError THEN e2
        ELSE LET e3 == decodeTriggerEvent(e2, ch, t, obdWarning)
             IN  IF e3.shaft_is_synchronized /\ isValidIndex(e3)
                 THEN scheduleEventsUntilNextTriggerTooth(e3,
                          SkippedTeeth(e3, e2.shaft_is_synchronized, e2.current_index))
                 ELSE e3

\* ------------------------------------------------------ console outputs
\* the significand of a float holds this many bits
FloatMantissaBits == 24

RECURSIVE BitLength(_)
BitLength(n) == IF n = 0 THEN 0 ELSE 1 + BitLength(n \div 2)

\* a non-negative int assigned to a float: the nearest value with a 24-bit
\* significand, ties to the even significand
IntToFloat(n) ==
    LET excess == BitLength(n) - FloatMantissaBits
        step == IF excess > 0 THEN 2 ^ excess ELSE 1
        q == n \div step
        r == n % step
    IN  IF 2 * r < step THEN q * step
        ELSE IF 2 * r > step THEN (q + 1) * step
        ELSE IF q % 2 = 0 THEN q * step ELSE (q + 1) * step

\* TriggerCentral::getHwEventCounter
getHwEventCounter(e, signal) == e.hwEventCounters[signal]

\* updateTunerStudioState, part_000:566-569 and, in debug mode
\* DBG_TRIGGER_COUNTERS, part_000:767-785
updateTunerStudioState(e, debugMode) ==
    LET e1 == [e EXCEPT
                 !.tsOutputChannels.totalTriggerErrorCounter = e.totalTriggerErrorCounter,
                 !.tsOutputChannels.orderingErrorCounter = e.orderingErrorCounter]
    IN  IF debugMode = "DBG_TRIGGER_COUNTERS"
        THEN [e1 EXCEPT
                !.tsOutputChannels.debugIntField1 =
                    getHwEventCounter(e, "SHAFT_PRIMARY_FALLING"),
                !.tsOutputChannels.debugIntField2 =
                    getHwEventCounter(e, "SHAFT_SECONDARY_FALLING"),
                !.tsOutputChannels.debugFloatField1 =
                    IntToFloat(getHwEventCounter(e, "SHAFT_PRIMARY_RISING")),
                !.tsOutputChannels.debugFloatField2 =
                    IntToFloat(getHwEventCounter(e, "SHAFT_SECONDARY_RISING")),
                !.tsOutputChannels.debugIntField4 = e.eventCount[1],
                !.tsOutputChannels.debugIntField5 = e.eventCount[2]]
        ELSE e1

\* the status loop publishes the outputs
UpdateTunerStudioState(debugMode) ==
    /\ engine' = Call(updateTunerStudioState(Enter(engine), debugMode), debugMode)
    /\ lastOp' = "publish"
    /\ UNCHANGED <<nowNt, slowPc, slowNowNt, gen, cfgThread>>

\* ------------------------------------------------------------ noise filter
\* the tunable ratio of the filter: a gap is implausibly short when it is less
\* than the last period divided by this ratio
NoiseFilterRatio == 2

\* the new gap of the channel against its recent history
IsImplausiblyShort(e, ch, t) ==
    /\ e.accumSignalPeriods[ch] > 0
    /\ (t - e.lastSignalTimes[ch]) * NoiseFilterRatio < e.accumSignalPeriods[ch]

\* the rolling history of the channel takes the new gap in
UpdateSignalHistory(e, ch, t) ==
    [e EXCEPT !.accumSignalPrevPeriods[ch] = e.accumSignalPeriods[ch],
              !.accumSignalPeriods[ch] = IF e.lastSignalTimes[ch] = 0 THEN 0
                                         ELSE t - e.lastSignalTimes[ch],
              !.lastSignalTimes[ch] = t]

\* a filter that lets every edge through
noiseFilter_acceptAll(e, ch, t) ==
    [accepted |-> TRUE, engine |-> UpdateSignalHistory(e, ch, t)]

\* TriggerNoiseFilter::noiseFilter: false for an edge that is to be dropped;
\* the history is updated either way
noiseFilter(e, ch, t) ==
    [accepted |-> ~IsImplausiblyShort(e, ch, t),
     engine |-> UpdateSignalHistory(e, ch, t)]

\* the edge goes through the filter, where it is in use, and then to the
\* decoder
FilterAndHandle(e, ch, t, obdWarning) ==
    IF e.useNoiselessTriggerDecoder
    THEN LET filtered == noiseFilter(Enter(e), ch, t)
         IN  IF filtered.accepted
             THEN handleShaftSignal(filtered.engine, ch, t, obdWarning)
             ELSE Call(filtered.engine, "noiseFilter=false")
    ELSE handleShaftSignal(e, ch, t, obdWarning)

\* hwHandleShaftSignal: an edge of the primary trigger input at the current
\* tick; two edges never carry the same timestamp
hwHandleShaftSignal(ch, obdWarning) ==
    /\ ~cfgThread.locked
    /\ engine.toothed_previous_time < nowNt
    /\ engine.m_lastEventTimer < nowNt
    /\ engine.lastSignalTimes[ch] < nowNt
    /\ engine.totalTriggerErrorCounter < MaxErrors
    /\ engine' = FilterAndHandle(engine, ch, nowNt, obdWarning)
    /\ lastOp' = "shaft"
    /\ UNCHANGED <<nowNt, slowPc, slowNowNt, gen, cfgThread>>

\* ---------------------------------------------------------- housekeeping
\* the pass never stopping the RPM calculator
UpdateRpmState_never(e, t) == e

\* doPeriodicSlowCallback, engine_controller.cpp:242-248
UpdateRpmState(e, t) ==
    IF ~checkIfSpinning(e, t) THEN setStopSpinning(e) ELSE e

\* isRunningBenchTest(): the bench test's own flag in the production build,
\* the constant true in every other build (engine.h:443-448)
isRunningBenchTest(e) == e.isRunningBenchTest

\* EnginePins::stopPins: every output is switched off
stopPins(e) == Call([e EXCEPT !.pinsOn = FALSE], "stopPins")

\* the watchdog marking the engine as stopped and leaving the outputs alone
watchdog_noStop(e, t) ==
    IF e.isRunningPwmTest THEN e
    ELSE IF ~e.isSpinning
         THEN IF ~isRunningBenchTest(e)
              THEN IF e.pinsOn
                   THEN warning(stopPins(e), "CUSTOM_ERR_2ND_WATCHDOG")
                   ELSE stopPins(e)
              ELSE e
    ELSE IF ~ElapsedAtLeast(e.m_lastEventTimer, t, TicksPerHalfSecond) THEN e
    ELSE [e EXCEPT !.isSpinning = FALSE, !.ignitionEventsReady = FALSE]

\* the watchdog stopping a spinning engine whatever the time since the edge
watchdog_eager(e, t) ==
    IF e.isRunningPwmTest THEN e
    ELSE IF ~e.isSpinning
         THEN IF ~isRunningBenchTest(e)
              THEN IF e.pinsOn
                   THEN warning(stopPins(e), "CUSTOM_ERR_2ND_WATCHDOG")
                   ELSE stopPins(e)
              ELSE e
    ELSE stopPins([e EXCEPT !.isSpinning = FALSE, !.ignitionEventsReady = FALSE])

\* Engine::watchdog, engine.h:909-941.  stopPins() answers whether an output
\* was on.
watchdog(e, t) ==
    IF e.isRunningPwmTest THEN e
    ELSE IF ~e.isSpinning
         THEN IF ~isRunningBenchTest(e)
              THEN IF e.pinsOn
                   THEN warning(stopPins(e), "CUSTOM_ERR_2ND_WATCHDOG")
                   ELSE stopPins(e)
              ELSE e
    ELSE IF ~ElapsedAtLeast(e.m_lastEventTimer, t, TicksPerHalfSecond) THEN e
    ELSE stopPins([e EXCEPT !.isSpinning = FALSE, !.ignitionEventsReady = FALSE])

\* Engine::periodicSlowCallback, engine.h:586-660
periodicSlowCallback(e, t) == watchdog(e, t)

\* ------------------------------------------------ applyNewHardwareSettings
\* the settings whose change decides whether a step runs
HardwareConditions ==
    {"is_enabled_spi_1", "is_enabled_spi_2", "is_enabled_spi_3", "is_enabled_spi_4",
     "clutchUpPin", "isIdleHardwareRestartNeeded"}

\* the 'stop' steps of applyNewHardwareSettings, part_001:867-944, in their
\* order, every subsystem compiled in
HardwareStopSteps ==
    << [name |-> "ButtonDebounce::stopConfigurationList", kind |-> "stop", when |-> "always"],
       [name |-> "stopTriggerInputPins", kind |-> "stop", when |-> "always"],
       [name |-> "stopJoystickPins", kind |-> "stop", when |-> "always"],
       [name |-> "stopCanPins", kind |-> "stop", when |-> "always"],
       [name |-> "stopAuxSerialPins", kind |-> "stop", when |-> "always"],
       [name |-> "stopHip9001_pins", kind |-> "stop", when |-> "always"],
       [name |-> "stopSmartCsPins", kind |-> "stop", when |-> "always"],
       [name |-> "stopVSSPins", kind |-> "stop", when |-> "always"],
       [name |-> "stopLogicAnalyzerPins", kind |-> "stop", when |-> "always"],
       [name |-> "stopTriggerEmulatorPins", kind |-> "stop", when |-> "always"],
       [name |-> "stopVvtControlPins", kind |-> "stop", when |-> "always"],
       [name |-> "stopSpi(SPI_DEVICE_1)", kind |-> "stop", when |-> "is_enabled_spi_1"],
       [name |-> "stopSpi(SPI_DEVICE_2)", kind |-> "stop", when |-> "is_enabled_spi_2"],
       [name |-> "stopSpi(SPI_DEVICE_3)", kind |-> "stop", when |-> "is_enabled_spi_3"],
       [name |-> "stopSpi(SPI_DEVICE_4)", kind |-> "stop", when |-> "is_enabled_spi_4"],
       [name |-> "stopHD44780_pins", kind |-> "stop", when |-> "always"],
       [name |-> "efiSetPadUnused(clutchUpPin)", kind |-> "stop", when |-> "clutchUpPin"],
       [name |-> "enginePins.unregisterPins", kind |-> "stop", when |-> "always"] >>

\* its 'start' steps, part_001:946-1017
HardwareStartSteps ==
    << [name |-> "ButtonDebounce::startConfigurationList", kind |-> "start", when |-> "always"],
       [name |-> "startTriggerInputPins", kind |-> "start", when |-> "always"],
       [name |-> "startJoystickPins", kind |-> "start", when |-> "always"],
       [name |-> "startHD44780_pins", kind |-> "start", when |-> "always"],
       [name |-> "startSmartCsPins", kind |-> "start", when |-> "always"],
       [name |-> "enginePins.startPins", kind |-> "start", when |-> "always"],
       [name |-> "startCanPins", kind |-> "start", when |-> "always"],
       [name |-> "startAuxSerialPins", kind |-> "start", when |-> "always"],
       [name |-> "startHip9001_pins", kind |-> "start", when |-> "always"],
       [name |-> "initIdleHardware", kind |-> "start", when |-> "isIdleHardwareRestartNeeded"],
       [name |-> "startVSSPins", kind |-> "start", when |-> "always"],
       [name |-> "startBoostPin", kind |-> "start", when |-> "always"],
       [name |-> "startTriggerEmulatorPins", kind |-> "start", when |-> "always"],
       [name |-> "startLogicAnalyzerPins", kind |-> "start", when |-> "always"],
       [name |-> "startVvtControlPins", kind |-> "start", when |-> "always"],
       [name |-> "adcConfigListener", kind |-> "start", when |-> "always"] >>

\* the trigger input pins started again before the other subsystems stopped
HardwareSteps_startEarly ==
    <<HardwareStopSteps[1], HardwareStopSteps[2], HardwareStartSteps[2]>>
        \o SubSeq(HardwareStopSteps, 3, Len(HardwareStopSteps))
        \o <<HardwareStartSteps[1]>>
        \o SubSeq(HardwareStartSteps, 3, Len(HardwareStartSteps))

\* the statements of applyNewHardwareSettings
HardwareSteps == HardwareStopSteps \o HardwareStartSteps

\* applyNewHardwareSettings is entered with some settings changed
ApplyBegin(changed) ==
    /\ cfgThread.pc = "idle"
    /\ cfgThread' = [cfgThread EXCEPT !.pc = "hardware", !.step = 1]
    /\ engine' = [Enter(engine) EXCEPT !.hwChanged = changed, !.hwLog = <<>>]
    /\ lastOp' = "applyBegin"
    /\ UNCHANGED <<nowNt, slowPc, slowNowNt, gen>>

\* its next statement; the function returns after the last one
ApplyStep ==
    /\ cfgThread.pc = "hardware"
    /\ LET step == HardwareSteps[cfgThread.step]
           last == cfgThread.step = Len(HardwareSteps)
       IN  /\ engine' = IF step.when = "always" \/ step.when \in engine.hwChanged
                        THEN [engine EXCEPT !.hwLog = Append(@, step)]
                        ELSE engine
           /\ cfgThread' = [cfgThread EXCEPT !.step = IF last THEN 0 ELSE @ + 1,
                                              !.pc = IF last THEN "idle" ELSE @]
           /\ lastOp' = IF last THEN "applied" ELSE "applyStep"
    /\ UNCHANGED <<nowNt, slowPc, slowNowNt, gen>>

\* ----------------------------------------------------------- slow ADC
\* the wait over as soon as the counter has reached lastAdcCounter
WaitForSlowAdcOver_inclusive(e) == e.slowAdcCounter >= e.lastAdcCounter

\* waitForSlowAdc, part_001:381: the loop is left
WaitForSlowAdcOver(e) == e.slowAdcCounter > e.lastAdcCounter

\* initHardware, part_001:1104-1108: initAdcInputs starts the slow ADC, then
\* waitForSlowAdc(1) is entered
InitAdcInputs ==
    /\ engine.initHardware = "start"
    /\ engine' = [Enter(engine) EXCEPT !.initHardware = "waitForSlowAdc",
                                        !.lastAdcCounter = 1]
    /\ lastOp' = "initAdcInputs"
    /\ UNCHANGED <<nowNt, slowPc, slowNowNt, gen, cfgThread>>

\* SlowAdcController::PeriodicTask, part_001:398-424; readSlowAnalogInputs
\* succeeds or fails
SlowAdcPeriodicTask(success) ==
    /\ engine.initHardware # "start"
    /\ IF success THEN engine.slowAdcCounter < MaxAdcReads
                  ELSE engine.slowAdcErrorsCount < MaxAdcReads
    /\ LET e1 == [Enter(engine) EXCEPT !.slowAdcConversionCount = @ + 1]
       IN  engine' = IF success
                     THEN Call([e1 EXCEPT !.slowAdcCounter = @ + 1],
                               "AdcSubscription::UpdateSubscribers")
                     ELSE [e1 EXCEPT !.slowAdcErrorsCount = @ + 1]
    /\ lastOp' = "slowAdc"
    /\ UNCHANGED <<nowNt, slowPc, slowNowNt, gen, cfgThread>>

\* waitForSlowAdc returns and initHardware goes on, part_001:1110
WaitForSlowAdcReturn ==
    /\ engine.initHardware = "waitForSlowAdc"
    /\ WaitForSlowAdcOver(engine)
    /\ engine' = [Enter(engine) EXCEPT !.initHardware = "initSoftwareKnock"]
    /\ lastOp' = "waitForSlowAdc"
    /\ UNCHANGED <<nowNt, slowPc, slowNowNt, gen, cfgThread>>

\* ---------------------------------------------------------------- SPI
\* spiAcquireBus without mutual exclusion: it returns at once
CanAcquireBus_always(e, device) == TRUE

\* spiAcquireBus returns once the mutex of the driver is free
CanAcquireBus(e, device) == e.spiOwner[device] = 0

\* lockSpi, part_001:646-649, is called: the thread waits in spiAcquireBus
LockSpiCall(thread, device) ==
    /\ engine.spiThread[thread].pc = "idle"
    /\ engine' = [Enter(engine) EXCEPT
                      !.spiThread[thread] = [pc |-> "spiAcquireBus", device |-> device]]
    /\ lastOp' = "lockSpiCall"
    /\ UNCHANGED <<nowNt, slowPc, slowNowNt, gen, cfgThread>>

\* lockSpi returns with the bus
LockSpiReturn(thread) ==
    /\ engine.spiThread[thread].pc = "spiAcquireBus"
    /\ CanAcquireBus(engine, engine.spiThread[thread].device)
    /\ engine' = [Enter(engine) EXCEPT
                      !.spiOwner[engine.spiThread[thread].device] = thread,
                      !.spiThread[thread].pc = "locked"]
    /\ lastOp' = "lockSpi"
    /\ UNCHANGED <<nowNt, slowPc, slowNowNt, gen, cfgThread>>

\* unlockSpi, part_001:651-653
UnlockSpi(thread) ==
    /\ engine.spiThread[thread].pc = "locked"
    /\ engine' = [Enter(engine) EXCEPT
                      !.spiOwner[engine.spiThread[thread].device] = 0,
                      !.spiThread[thread] = [pc |-> "idle", device |-> "SPI_NONE"]]
    /\ lastOp' = "unlockSpi"
    /\ UNCHANGED <<nowNt, slowPc, slowNowNt, gen, cfgThread>>

\* ------------------------------------------------------------- shutdown
\* the battery voltages tried: at the 'off' threshold of 5.0 V, at the 'on'
\* threshold of 8.0 V, above it
BatteryVoltages == {5, 8, 9}

\* doScheduleStopEngine, engine.h:1072-1084
doScheduleStopEngine(e, t) ==
    stopPins([e EXCEPT !.stopEngineRequestTimeNt = t, !.ignitionOnTimeNt = 0,
                       !.stopRequestedAt = t])

\* the wait of at least one second forgotten
ShutdownWaits_noMinimum(e, t) ==
    \/ e.isSpinning /\ t - e.stopEngineRequestTimeNt < 5 * NT_PER_SECOND
    \/ e.idleMotorBusy /\ t - e.stopEngineRequestTimeNt < 10 * NT_PER_SECOND

\* Engine::isInShutdownMode, engine.h:989-1004: the waits after a request
ShutdownWaits(e, t) ==
    \/ t - e.stopEngineRequestTimeNt < NT_PER_SECOND
    \/ e.isSpinning /\ t - e.stopEngineRequestTimeNt < 5 * NT_PER_SECOND
    \/ e.idleMotorBusy /\ t - e.stopEngineRequestTimeNt < 10 * NT_PER_SECOND

\* Engine::isInShutdownMode, engine.h:973-1007: its result and the engine it
\* leaves (it requests the stop itself when the ignition voltage dropped)
isInShutdownMode(e, t) ==
    LET e1 == IF e.stopEngineRequestTimeNt = 0 /\ e.ignitionOnTimeNt > 0 /\ e.vBatt <= 5
              THEN doScheduleStopEngine(e, t)
              ELSE e
    IN  [ result |-> e1.stopEngineRequestTimeNt # 0 /\ ShutdownWaits(e1, t),
          engine |-> e1 ]

\* the shutdown cancelled as soon as the ignition voltage is back
checkShutdown_eager(e, t) ==
    IF e.ignitionOnTimeNt > 0 THEN e
    ELSE IF e.vBatt > 8
         THEN Call([e EXCEPT !.ignitionOnTimeNt = t, !.stopEngineRequestTimeNt = 0],
                   "Cancel the engine shutdown")
         ELSE e

\* Engine::checkShutdown, engine.h:943-964
checkShutdown(e, t) ==
    IF e.ignitionOnTimeNt > 0 THEN e
    ELSE IF e.stopEngineRequestTimeNt = 0
            \/ t - e.stopEngineRequestTimeNt > TicksPerHalfSecond
         THEN LET query == isInShutdownMode(e, t)
              IN  IF e.vBatt > 8 /\ ~query.result
                  THEN Call([query.engine EXCEPT !.ignitionOnTimeNt = t,
                                                 !.stopEngineRequestTimeNt = 0],
                            "Cancel the engine shutdown")
                  ELSE IF e.vBatt > 8 THEN query.engine ELSE e
         ELSE e

\* the 'stopengine' command
ScheduleStopEngine ==
    /\ engine' = doScheduleStopEngine(Enter(engine), nowNt)
    /\ lastOp' = "stopEngine"
    /\ UNCHANGED <<nowNt, slowPc, slowNowNt, gen, cfgThread>>

\* Engine::updateSlowSensors, engine.h:689: the battery voltage is read
UpdateSlowSensors(volts) ==
    /\ engine.vBatt # volts
    /\ engine' = [Enter(engine) EXCEPT !.vBatt = volts]
    /\ lastOp' = "sensors"
    /\ UNCHANGED <<nowNt, slowPc, slowNowNt, gen, cfgThread>>

\* the idle motor starts or finishes moving
SetIdleMotorBusy(busy) ==
    /\ engine.idleMotorBusy # busy
    /\ engine' = [Enter(engine) EXCEPT !.idleMotorBusy = busy]
    /\ lastOp' = "idleMotor"
    /\ UNCHANGED <<nowNt, slowPc, slowNowNt, gen, cfgThread>>

\* the trigger input makes the engine spin, the watchdog finds it stopped
SetSpinning(spinning) ==
    /\ engine.isSpinning # spinning
    /\ engine' = [Enter(engine) EXCEPT !.isSpinning = spinning]
    /\ lastOp' = "spinning"
    /\ UNCHANGED <<nowNt, slowPc, slowNowNt, gen, cfgThread>>

\* Engine::periodicSlowCallback, engine.h:597, in a build with
\* EFI_MAIN_RELAY_CONTROL
CheckShutdown ==
    /\ engine' = checkShutdown(Enter(engine), nowNt)
    /\ lastOp' = "checkShutdown"
    /\ UNCHANGED <<nowNt, slowPc, slowNowNt, gen, cfgThread>>

\* the main relay logic asks for the shutdown mode, fsio_impl.cpp:160, 774
QueryShutdownMode ==
    /\ LET query == isInShutdownMode(Enter(engine), nowNt)
       IN  engine' = Call(query.engine,
                          IF query.result THEN "isInShutdownMode=true"
                          ELSE "isInShutdownMode=false")
    /\ lastOp' = "queryShutdown"
    /\ UNCHANGED <<nowNt, slowPc, slowNowNt, gen, cfgThread>>

\* the configuration written to flash whatever the engine does
WriteFlash_always(e) == Call(e, "writeToFlashIfPending")

\* doPeriodicSlowCallback, engine_controller.cpp:250-260: the pending write
\* to internal flash
WriteFlash(e) ==
    IF e.directSelfStimulation \/ isStopped(e)
    THEN Call(e, "writeToFlashIfPending")
    ELSE e

\* LocalVersionHolder::isOld with what doPeriodicSlowCallback does when it
\* holds, engine_controller.cpp:268-270: a newer version is taken over and
\* the listener runs
ConfigurationListeners(e) ==
    IF e.globalConfigurationVersion > e.versionForConfigurationListeners
    THEN Call([e EXCEPT !.versionForConfigurationListeners = e.globalConfigurationVersion],
              "updateAccelParameters")
    ELSE e

\* the rest of the pass after the VVT loop, engine_controller.cpp:238-272
SlowCallbackRest(e, t) ==
    periodicSlowCallback(ConfigurationListeners(WriteFlash(UpdateRpmState(e, t))), t)

\* ------------------------------------------- console parameter writes
\* what atoi gives for a string that is not a number
ERROR_CODE == 311223344
absI(n) == IF n < 0 THEN -n ELSE n

\* the offsets, bits and values a console command can carry
ConsoleOffsets == (-1 .. ConfigSize) \cup {ERROR_CODE}
ConsoleBits == {0, 1, ERROR_CODE}
ConsoleValues == {0, 1, 257, 65537}

\* engine_controller.cpp:364
isOutOfBounds(offset) == offset < 0 \/ offset >= ConfigSize

\* incrementGlobalConfigurationVersion
incrementGlobalConfigurationVersion(e) ==
    [e EXCEPT !.globalConfigurationVersion = @ + 1]

\* the change kept from the listeners
onConfigurationChanged_silent(e) == Call(e, "syncTunerStudioCopy")

\* onConfigurationChanged, engine_controller.cpp:388-396
onConfigurationChanged(e) ==
    incrementGlobalConfigurationVersion(Call(e, "syncTunerStudioCopy"))

\* *ptr ^= (-value ^ *ptr) & (1 << bit), for a value of 0 or 1
WithBit(word, bit, value) ==
    word - ((word \div (2 ^ bit)) % 2) * (2 ^ bit) + value * (2 ^ bit)

\* setBit, engine_controller.cpp:398-422
setBit(e, offset, bit, value) ==
    IF \/ absI(offset) = absI(ERROR_CODE)
       \/ isOutOfBounds(offset)
       \/ absI(bit) = absI(ERROR_CODE)
       \/ absI(value) = absI(ERROR_CODE)
    THEN e
    ELSE onConfigurationChanged(
             [e EXCEPT !.engineConfiguration[offset] = WithBit(@, bit, value)])

\* setShort, engine_controller.cpp:424-431: the value is cut to 16 bits
setShort(e, offset, value) ==
    IF isOutOfBounds(offset) THEN e
    ELSE onConfigurationChanged(
             [e EXCEPT !.engineConfiguration[offset] = value % 65536])

\* setByte, engine_controller.cpp:433-440: the value is cut to 8 bits
setByte(e, offset, value) ==
    IF isOutOfBounds(offset) THEN e
    ELSE onConfigurationChanged(
             [e EXCEPT !.engineConfiguration[offset] = value % 256])

\* setInt, engine_controller.cpp:464-471
setInt(e, offset, value) ==
    IF isOutOfBounds(offset) THEN e
    ELSE onConfigurationChanged([e EXCEPT !.engineConfiguration[offset] = value])

\* setFloat, engine_controller.cpp:484-501; isNaN: atoff gave no number
setFloat(e, offset, value, isNaN) ==
    IF absI(offset) = absI(ERROR_CODE) \/ isOutOfBounds(offset) \/ isNaN
    THEN e
    ELSE onConfigurationChanged(
             [e EXCEPT !.engineConfiguration[offset] = IntToFloat(value)])

\* one command of the console thread
ConsoleCommand(after) ==
    /\ engine.globalConfigurationVersion < MaxConfigVersion
    /\ engine' = after
    /\ lastOp' = "console"
    /\ UNCHANGED <<nowNt, slowPc, slowNowNt, gen, cfgThread>>

ConsoleSetBit(offset, bit, value) ==
    ConsoleCommand(setBit(Call(Enter(engine), "set_bit"), offset, bit, value))
ConsoleSetShort(offset, value) ==
    ConsoleCommand(setShort(Call(Enter(engine), "set_short"), offset, value))
ConsoleSetByte(offset, value) ==
    ConsoleCommand(setByte(Call(Enter(engine), "set_byte"), offset, value))
ConsoleSetInt(offset, value) ==
    ConsoleCommand(setInt(Call(Enter(engine), "set_int"), offset, value))
ConsoleSetFloat(offset, value, isNaN) ==
    ConsoleCommand(setFloat(Call(Enter(engine), "set_float"), offset, value, isNaN))

\* the body of doPeriodicSlowCallback, engine_controller.cpp:220-278
SlowCallbackBody(e, t) ==
    SlowCallbackRest(ClearStaleVvtSync(Enter(e), t), t)

\* the self-stimulation of the trigger input is switched on or off
SetDirectSelfStimulation(on) ==
    /\ engine.directSelfStimulation # on
    /\ engine' = [Enter(engine) EXCEPT !.directSelfStimulation = on]
    /\ lastOp' = "selfStimulation"
    /\ UNCHANGED <<nowNt, slowPc, slowNowNt, gen, cfgThread>>

doPeriodicSlowCallback ==
    /\ slowPc = 0
    /\ engine' = SlowCallbackBody(engine, nowNt)
    /\ slowNowNt' = nowNt
    /\ lastOp' = "slow"
    /\ UNCHANGED <<nowNt, slowPc, gen, cfgThread>>

\* ---------------------------------- housekeeping preempted by the interrupt
\* The same pass in the steps an interrupt can separate.  slowPc = 0: not in
\* the pass; 2i-1: about to test entry i; 2i: the test of entry i held, about
\* to store 0; 2 * Len(Entries) + 1: the loop is done.
LoopDone == 2 * Len(Entries) + 1
EntryStamp(e, i) == e.vvtSyncTimeNt[Entries[i][1]][Entries[i][2]]

\* engine_controller.cpp:227
SlowBegin ==
    /\ slowPc = 0
    /\ slowNowNt' = nowNt
    /\ slowPc' = 1
    /\ engine' = Enter(engine)
    /\ lastOp' = "slowBegin"
    /\ UNCHANGED <<nowNt, gen, cfgThread>>

\* engine_controller.cpp:230
SlowTest(i) ==
    /\ slowPc = 2 * i - 1
    /\ slowPc' = IF slowNowNt - EntryStamp(engine, i) >= NT_PER_SECOND
                 THEN 2 * i ELSE 2 * i + 1
    /\ lastOp' = "slowTest"
    /\ UNCHANGED <<nowNt, engine, slowNowNt, gen, cfgThread>>

\* engine_controller.cpp:232
SlowStore(i) ==
    /\ slowPc = 2 * i
    /\ engine' = [engine EXCEPT !.vvtSyncTimeNt[Entries[i][1]][Entries[i][2]] = 0]
    /\ slowPc' = 2 * i + 1
    /\ lastOp' = "slowStore"
    /\ UNCHANGED <<nowNt, slowNowNt, gen, cfgThread>>

\* engine_controller.cpp:238-278
SlowFinish ==
    /\ slowPc = LoopDone
    /\ engine' = SlowCallbackRest(engine, slowNowNt)
    /\ slowPc' = 0
    /\ lastOp' = "slow"
    /\ UNCHANGED <<nowNt, slowNowNt, gen, cfgThread>>

\* ------------------------------------- Engine::initializeTriggerWaveform
\* the configurations the trigger is rebuilt for
ReinitTypes == {"TT_SMALL_WHEEL", "TT_SKODA_FAVORIT", "TT_UNUSED"}
VvtModes == {"VVT_INACTIVE", "VVT_SECOND_HALF"}

\* initVvtShape, engine.h:504-521: the shape of an active VVT input is rebuilt
initVvtShape(e, vvtMode, index) ==
    IF vvtMode # "VVT_INACTIVE" THEN [e EXCEPT !.vvtShape[index] = vvtMode] ELSE e

\* the critical section opened only after the primary waveform was rebuilt
InitSteps_lateLock ==
    <<"update", "primary", "lock", "synch", "vvt0", "vvt1", "outputs", "unlock">>

\* the statements of Engine::initializeTriggerWaveform, engine.h:523-561, in
\* their order: the configuration is re-read (527-531), the critical section
\* is entered (535), the primary waveform is rebuilt (537-539), its sync
\* point and engineCycleEventCount follow (541-550), the two VVT shapes
\* (553-554), the output signals (557-559); the critical section ends with
\* the function (560)
InitSteps ==
    <<"update", "lock", "primary", "synch", "vvt0", "vvt1", "outputs", "unlock">>

\* the statements with the two tests of shapeDefinitionError left out
InitStepEffect_unconditional(e, triggerType, vvtMode, step) ==
    CASE step = "primary" ->
            [e EXCEPT !.triggerShape = BuildTriggerWaveform(triggerType),
                      !.triggerType = triggerType]
      [] step = "synch" ->
            [Call(e, "calculateTriggerSynchPoint") EXCEPT
                !.triggerShapeSynchPointIndex = calculateTriggerSynchPoint(e.triggerShape),
                !.engineCycleEventCount = getLength(e.triggerShape)]
      [] step = "vvt0" -> initVvtShape(e, vvtMode, 0)
      [] step = "vvt1" -> initVvtShape(e, vvtMode, 1)
      [] step = "outputs" ->
            [Call(e, "prepareOutputSignals") EXCEPT !.outputSignalsFor = e.triggerType]
      [] OTHER -> e

\* what one of these statements does to the engine
InitStepEffect(e, triggerType, vvtMode, step) ==
    CASE step = "primary" ->
            [e EXCEPT !.triggerShape = BuildTriggerWaveform(triggerType),
                      !.triggerType = triggerType]
      [] step = "synch" ->
            IF ~e.triggerShape.shapeDefinitionError
            THEN [Call(e, "calculateTriggerSynchPoint") EXCEPT
                     !.triggerShapeSynchPointIndex = calculateTriggerSynchPoint(e.triggerShape),
                     !.engineCycleEventCount = getLength(e.triggerShape)]
            ELSE e
      [] step = "vvt0" -> initVvtShape(e, vvtMode, 0)
      [] step = "vvt1" -> initVvtShape(e, vvtMode, 1)
      [] step = "outputs" ->
            IF ~e.triggerShape.shapeDefinitionError
            THEN [Call(e, "prepareOutputSignals") EXCEPT !.outputSignalsFor = e.triggerType]
            ELSE e
      [] OTHER -> e

\* the first n statements
RECURSIVE InitStepsRun(_, _, _, _)
InitStepsRun(e, triggerType, vvtMode, n) ==
    IF n = 0 THEN e
    ELSE InitStepEffect(InitStepsRun(e, triggerType, vvtMode, n - 1),
                        triggerType, vvtMode, InitSteps[n])

\* Engine::initializeTriggerWaveform as a whole
initializeTriggerWaveform(e, triggerType, vvtMode) ==
    InitStepsRun(e, triggerType, vvtMode, Len(InitSteps))

\* the trigger configuration was changed and the waveform is rebuilt, seen
\* from the trigger interrupt as one step
ReinitTrigger(triggerType, vvtMode) ==
    /\ cfgThread.pc = "idle"
    /\ engine' = initializeTriggerWaveform(Enter(engine), triggerType, vvtMode)
    /\ cfgThread' = [cfgThread EXCEPT !.triggerType = triggerType, !.vvtMode = vvtMode]
    /\ lastOp' = "reinit"
    /\ UNCHANGED <<nowNt, slowPc, slowNowNt, gen>>

\* the same statement by statement: the function is entered
InitBegin(triggerType, vvtMode) ==
    /\ cfgThread.pc = "idle"
    /\ cfgThread' = [cfgThread EXCEPT !.pc = "init", !.triggerType = triggerType,
                                       !.vvtMode = vvtMode, !.step = 1]
    /\ engine' = Enter(engine)
    /\ lastOp' = "initBegin"
    /\ UNCHANGED <<nowNt, slowPc, slowNowNt, gen>>

\* its next statement; the function returns after the last one
InitStep ==
    /\ cfgThread.pc = "init"
    /\ LET step == InitSteps[cfgThread.step]
           last == cfgThread.step = Len(InitSteps)
       IN  /\ engine' = InitStepEffect(engine, cfgThread.triggerType, cfgThread.vvtMode, step)
           /\ cfgThread' = [cfgThread EXCEPT
                  !.locked = IF step = "lock" THEN TRUE
                             ELSE IF step = "unlock" THEN FALSE ELSE @,
                  !.step = IF last THEN 0 ELSE @ + 1,
                  !.pc = IF last THEN "idle" ELSE @]
           /\ lastOp' = IF last THEN "initialized" ELSE "initStep"
    /\ UNCHANGED <<nowNt, slowPc, slowNowNt, gen>>

\* a listener registers an angle-based event while the decoder follows the
\* wheel
RegisterEvent(id, triggerEventIndex) ==
    /\ engine.shaft_is_synchronized
    /\ isValidIndex(engine)
    /\ triggerEventIndex < getLength(engine.triggerShape)
    /\ engine.registeredCount[id] = 0
    /\ engine' = scheduleByAngle(Enter(engine), id, triggerEventIndex)
    /\ lastOp' = "register"
    /\ UNCHANGED <<nowNt, slowPc, slowNowNt, gen, cfgThread>>

\* ------------------------------------------------- a builder, call by call
\* the builder of a trigger type is entered: initialize()
ConfigureStart(triggerType) ==
    /\ cfgThread.pc = "idle"
    /\ cfgThread' = [cfgThread EXCEPT !.pc = "build", !.triggerType = triggerType,
                                       !.call = 1]
    /\ engine' = [Enter(engine) EXCEPT !.triggerShape = BuilderStart(Builder(triggerType))]
    /\ lastOp' = "configure"
    /\ UNCHANGED <<nowNt, slowPc, slowNowNt, gen>>

\* the next addEvent... call of the builder
ConfigureStep ==
    /\ cfgThread.pc = "build"
    /\ cfgThread.call <= Len(Builder(cfgThread.triggerType).calls)
    /\ engine' = [engine EXCEPT !.triggerShape =
                      ApplyCall(@, Builder(cfgThread.triggerType).calls[cfgThread.call])]
    /\ cfgThread' = [cfgThread EXCEPT !.call = @ + 1]
    /\ lastOp' = "addEvent"
    /\ UNCHANGED <<nowNt, slowPc, slowNowNt, gen>>

\* the builder returns
ConfigureDone ==
    /\ cfgThread.pc = "build"
    /\ cfgThread.call > Len(Builder(cfgThread.triggerType).calls)
    /\ cfgThread' = [cfgThread EXCEPT !.pc = "idle"]
    /\ lastOp' = "configured"
    /\ UNCHANGED <<nowNt, engine, slowPc, slowNowNt, gen>>

\* ------------------------------------------------ actuators and test modes
\* a PWM test starts or ends (Engine::isRunningPwmTest, engine.h:265)
SetPwmTest(running) ==
    /\ engine.isRunningPwmTest # running
    /\ engine' = [Enter(engine) EXCEPT !.isRunningPwmTest = running]
    /\ lastOp' = "test"
    /\ UNCHANGED <<nowNt, slowPc, slowNowNt, gen, cfgThread>>

\* a bench test starts or ends
SetBenchTest(running) ==
    /\ engine.isRunningBenchTest # running
    /\ engine' = [Enter(engine) EXCEPT !.isRunningBenchTest = running]
    /\ lastOp' = "test"
    /\ UNCHANGED <<nowNt, slowPc, slowNowNt, gen, cfgThread>>

\* an actuator output is switched on (a scheduled injection or spark, or a
\* test driving the pin)
OutputOn ==
    /\ ~engine.pinsOn
    /\ engine' = [Enter(engine) EXCEPT !.pinsOn = TRUE]
    /\ lastOp' = "output"
    /\ UNCHANGED <<nowNt, slowPc, slowNowNt, gen, cfgThread>>

\* the ignition events of the next cycle are prepared
PrepareIgnitionEvents ==
    /\ ~engine.ignitionEventsReady
    /\ engine' = [Enter(engine) EXCEPT !.ignitionEventsReady = TRUE]
    /\ lastOp' = "ignition"
    /\ UNCHANGED <<nowNt, slowPc, slowNowNt, gen, cfgThread>>

\* ------------------------------------------------- periodic edge generator
\* the ticks the wheel takes from the event before event i to event i when
\* it turns once in gen.cycleTicks
EventTicks(s, i) == (EventDelta(s, i) * gen.cycleTicks) \div FullCycle

\* the wheel turns at constant speed: event gen.index arrives at gen.next
PeriodicEdge(obdWarning) ==
    /\ nowNt = gen.next
    /\ engine.totalTriggerErrorCounter < MaxErrors
    /\ engine' = handleShaftSignal(engine, T_PRIMARY, nowNt, obdWarning)
    /\ LET following == (gen.index % getLength(engine.triggerShape)) + 1
       IN  gen' = [gen EXCEPT !.index = following,
                              !.next = nowNt + EventTicks(engine.triggerShape, following),
                              !.fed = gen.fed + 1]
    /\ lastOp' = "shaft"
    /\ UNCHANGED <<nowNt, slowPc, slowNowNt, cfgThread>>

PeriodicTick ==
    /\ nowNt < gen.next
    /\ Tick(MaxTime)

\* the 60-2 wheel of setVwConfiguration is configured and turns at constant
\* speed, the generator starting at any of its events
InitWheel ==
    /\ nowNt = 1
    /\ engine = [EngineInit EXCEPT
            !.triggerShape = BuildTriggerWaveform("TT_60_2_VW"),
            !.triggerShapeSynchPointIndex =
                calculateTriggerSynchPoint(BuildTriggerWaveform("TT_60_2_VW")),
            !.engineCycleEventCount = getLength(BuildTriggerWaveform("TT_60_2_VW"))]
    /\ slowPc = 0
    /\ slowNowNt = 0
    /\ gen \in [index : 1 .. getLength(BuildTriggerWaveform("TT_60_2_VW")), next : {1},
                fed : {0}, cycleTicks : {WheelCycleTicks}]
    /\ cfgThread = [CfgIdle EXCEPT !.triggerType = "TT_60_2_VW"]
    /\ lastOp = "init"

WheelTick ==
    /\ nowNt < gen.next
    /\ Tick(MaxWheelTime)

\* ------------------------------------------------------- specifications
\* the VVT inputs and the housekeeping pass
NextVvt ==
    \/ Tick(MaxVvtTime)
    \/ \E b \in Banks, c \in Cams, isSync \in BOOLEAN, phase \in VvtPhases :
          hwHandleVvtCamSignal(b, c, isSync, phase)
    \/ doPeriodicSlowCallback

SpecVvt == Init /\ [][NextVvt]_vars

\* the primary trigger input, edges at any tick, and the housekeeping pass
Next ==
    \/ Tick(MaxTime)
    \/ \E ch \in InputChannels, obdWarning \in BOOLEAN : hwHandleShaftSignal(ch, obdWarning)
    \/ doPeriodicSlowCallback

Spec == Init /\ [][Next]_vars

\* the same with the slow callback scheduled again and again (it is a
\* periodic thread, SLOW_CALLBACK_PERIOD_MS)
NextTimeout ==
    \/ Tick(MaxTime)
    \/ hwHandleShaftSignal(T_PRIMARY, FALSE)
    \/ doPeriodicSlowCallback

SpecTimeout == Init /\ [][NextTimeout]_vars /\ WF_vars(doPeriodicSlowCallback)

\* the VVT interrupt preempting the housekeeping pass
NextVvtRace ==
    \/ Tick(MaxRaceTime)
    \/ \E b \in Banks, c \in Cams : hwHandleVvtCamSignal(b, c, TRUE, 10)
    \/ SlowBegin
    \/ \E i \in 1 .. Len(Entries) : SlowTest(i)
    \/ \E i \in 1 .. Len(Entries) : SlowStore(i)
    \/ SlowFinish

SpecVvtRace == Init /\ [][NextVvtRace]_vars

\* a perfectly periodic edge sequence matching the waveform
NextPeriodic ==
    \/ PeriodicTick
    \/ \E obdWarning \in BOOLEAN : PeriodicEdge(obdWarning)
    \/ doPeriodicSlowCallback

SpecPeriodic == InitPeriodic /\ [][NextPeriodic]_vars

\* the trigger input, the actuator outputs, the test modes and the pass
NextWatchdog ==
    \/ Tick(MaxTime)
    \/ hwHandleShaftSignal(T_PRIMARY, FALSE)
    \/ \E running \in BOOLEAN : SetPwmTest(running)
    \/ \E running \in BOOLEAN : SetBenchTest(running)
    \/ OutputOn
    \/ doPeriodicSlowCallback

SpecWatchdog == Init /\ [][NextWatchdog]_vars

\* the watchdog over an engine that turns and stalls, with and without a
\* PWM test
NextStall ==
    \/ Tick(MaxStallTime)
    \/ hwHandleShaftSignal(T_PRIMARY, FALSE)
    \/ \E running \in BOOLEAN : SetPwmTest(running)
    \/ PrepareIgnitionEvents
    \/ OutputOn
    \/ doPeriodicSlowCallback

SpecStall == Init /\ [][NextStall]_vars

\* the 60-2 wheel turning at constant speed
NextWheel ==
    \/ WheelTick
    \/ PeriodicEdge(FALSE)

SpecWheel == InitWheel /\ [][NextWheel]_vars

\* the trigger and VVT interrupts while the waveform is rebuilt
NextReinit ==
    \/ Tick(MaxRaceTime)
    \/ hwHandleShaftSignal(T_PRIMARY, FALSE)
    \/ hwHandleVvtCamSignal(0, 0, TRUE, 10)
    \/ \E triggerType \in ReinitTypes, vvtMode \in VvtModes : InitBegin(triggerType, vvtMode)
    \/ InitStep

SpecReinit == Init /\ [][NextReinit]_vars

\* the trigger interrupt, listeners registering angle-based events, and the
\* trigger configuration changed
NextSchedule ==
    \/ Tick(MaxScheduleTime)
    \/ hwHandleShaftSignal(T_PRIMARY, FALSE)
    \/ \E id \in EventIds, triggerEventIndex \in 0 .. 5 : RegisterEvent(id, triggerEventIndex)
    \/ \E triggerType \in ReinitTypes : ReinitTrigger(triggerType, "VVT_SECOND_HALF")

SpecSchedule == Init /\ [][NextSchedule]_vars

\* the trigger input behind the noise filter
InitNoise ==
    /\ nowNt = 1
    /\ engine = [EngineInit EXCEPT !.useNoiselessTriggerDecoder = TRUE]
    /\ slowPc = 0
    /\ slowNowNt = 0
    /\ gen = [index |-> 1, next |-> 1, fed |-> 0, cycleTicks |-> CycleTicks]
    /\ cfgThread = CfgIdle
    /\ lastOp = "init"

NextNoise ==
    \/ Tick(MaxNoiseTime)
    \/ hwHandleShaftSignal(T_PRIMARY, FALSE)

SpecNoise == InitNoise /\ [][NextNoise]_vars

\* the trigger input and the status loop, after any number of edges
DebugModes == {"DBG_TRIGGER_COUNTERS", "DBG_AUX_VALVES"}

InitPublish ==
    /\ nowNt = 1
    /\ \E counters \in [HwEventTypes -> {0, 2 ^ FloatMantissaBits - 1, 2 ^ FloatMantissaBits}] :
          engine = [EngineInit EXCEPT !.hwEventCounters = counters]
    /\ slowPc = 0
    /\ slowNowNt = 0
    /\ gen = [index |-> 1, next |-> 1, fed |-> 0, cycleTicks |-> CycleTicks]
    /\ cfgThread = CfgIdle
    /\ lastOp = "init"

NextPublish ==
    \/ Tick(MaxPublishTime)
    \/ \E ch \in InputChannels : hwHandleShaftSignal(ch, FALSE)
    \/ \E debugMode \in DebugModes : UpdateTunerStudioState(debugMode)

SpecPublish == InitPublish /\ [][NextPublish]_vars

\* the trigger input, the self-stimulation and the housekeeping pass
NextFlash ==
    \/ Tick(MaxFlashTime)
    \/ hwHandleShaftSignal(T_PRIMARY, FALSE)
    \/ \E on \in BOOLEAN : SetDirectSelfStimulation(on)
    \/ doPeriodicSlowCallback

SpecFlash == Init /\ [][NextFlash]_vars

\* the hardware restarted after a change of settings
NextHardware ==
    \/ \E changed \in SUBSET HardwareConditions : ApplyBegin(changed)
    \/ ApplyStep

SpecHardware == Init /\ [][NextHardware]_vars

\* the console writing parameters, the housekeeping pass polling the version
NextConsole ==
    \/ \E offset \in ConsoleOffsets, bit \in ConsoleBits, value \in {0, 1, ERROR_CODE} :
           ConsoleSetBit(offset, bit, value)
    \/ \E offset \in ConsoleOffsets, value \in ConsoleValues : ConsoleSetShort(offset, value)
    \/ \E offset \in ConsoleOffsets, value \in ConsoleValues : ConsoleSetByte(offset, value)
    \/ \E offset \in ConsoleOffsets, value \in ConsoleValues : ConsoleSetInt(offset, value)
    \/ \E offset \in ConsoleOffsets, value \in ConsoleValues, isNaN \in BOOLEAN :
           ConsoleSetFloat(offset, value, isNaN)
    \/ doPeriodicSlowCallback

SpecConsole == Init /\ [][NextConsole]_vars

\* initHardware waiting for the slow ADC; the ADC thread runs again and
\* again, its reads succeed again and again, and the waiting thread wakes up
\* (chThdSleepMilliseconds(1)) to look at the counter
NextAdc ==
    \/ Tick(MaxAdcReads)
    \/ InitAdcInputs
    \/ \E success \in BOOLEAN : SlowAdcPeriodicTask(success)
    \/ WaitForSlowAdcReturn

SpecAdc ==
    /\ Init /\ [][NextAdc]_vars
    /\ WF_vars(InitAdcInputs)
    /\ WF_vars(SlowAdcPeriodicTask(TRUE))
    /\ WF_vars(WaitForSlowAdcReturn)

\* the threads sharing the SPI buses
NextSpi ==
    \/ \E thread \in SpiThreads, device \in SpiDevices : LockSpiCall(thread, device)
    \/ \E thread \in SpiThreads : LockSpiReturn(thread)
    \/ \E thread \in SpiThreads : UnlockSpi(thread)

SpecSpi == Init /\ [][NextSpi]_vars

\* the stop request, the ignition voltage and the shutdown logic
NextShutdown ==
    \/ Tick(MaxShutdownTime)
    \/ ScheduleStopEngine
    \/ \E volts \in BatteryVoltages : UpdateSlowSensors(volts)
    \/ \E busy \in BOOLEAN : SetIdleMotorBusy(busy)
    \/ \E spinning \in BOOLEAN : SetSpinning(spinning)
    \/ CheckShutdown
    \/ QueryShutdownMode

SpecShutdown == Init /\ [][NextShutdown]_vars

\* the waveform builders of the repository, run one after another
NextBuild ==
    \/ \E triggerType \in BuilderTypes : ConfigureStart(triggerType)
    \/ ConfigureStep
    \/ ConfigureDone

SpecBuild == Init /\ [][NextBuild]_vars

\* ---------------------------------------------------------------- claims
Called(name) == \E i \in 1 .. Len(engine.calls) : engine.calls[i] = name
Stamp(b, c) == engine.vvtSyncTimeNt[b][c]

C2_FreshVvtSyncNeverCleared ==
    [][ \A b \in Banks, c \in Cams :
          (Stamp(b, c) # 0 /\ nowNt - Stamp(b, c) < NT_PER_SECOND)
              => engine'.vvtSyncTimeNt[b][c] # 0 ]_vars

\* C3: getVVTPosition answers the phase of the latest sync event only while
\* the VVT sync timestamp is set; with no sync ever, or once a housekeeping
\* pass found the sync a second old, it answers the unknown value.
C3_VvtPositionOnlyWhileFresh ==
    /\ getVVTPosition(engine) # VVT_UNKNOWN =>
          /\ Stamp(0, 0) # 0
          /\ getVVTPosition(engine) = engine.vvtPosition[0][0]
    /\ engine.vvtPosition[0][0] = 0 => getVVTPosition(engine) = VVT_UNKNOWN
    /\ (lastOp = "slow" /\ (Stamp(0, 0) = 0 \/ nowNt - Stamp(0, 0) >= NT_PER_SECOND))
          => getVVTPosition(engine) = VVT_UNKNOWN
    /\ (lastOp = "slow" /\ getVVTPosition(engine) # VVT_UNKNOWN)
          => nowNt - Stamp(0, 0) < NT_PER_SECOND

\* C3 witness: the first cam of the first bank was synchronized, a pass
\* cleared its stale timestamp, and the phase is no longer reported.
C3_Witness ==
    /\ lastOp = "slow"
    /\ engine.vvtPosition[0][0] \in VvtPhases
    /\ Stamp(0, 0) = 0
    /\ getVVTPosition(engine) = VVT_UNKNOWN

\* C4: at a cycle boundary reached while synchronized, a mismatch of the
\* cycle's event counts adds exactly 1 to totalTriggerErrorCounter and runs
\* the decode-error callback; matching counts leave the counter alone and the
\* callback does not run.
C4_MismatchCountedOnce ==
    [][ (lastOp' = "shaft" /\ Called("OnTriggerSyncronization(true)")') =>
          IF \E ch \in Channels :
                engine'.validated[ch] # expectedEventCount(engine.triggerShape)[ch]
          THEN /\ engine'.totalTriggerErrorCounter = engine.totalTriggerErrorCounter + 1
               /\ Called("OnTriggerStateDecodingError")'
          ELSE /\ engine'.totalTriggerErrorCounter = engine.totalTriggerErrorCounter
               /\ ~Called("OnTriggerStateDecodingError")' ]_vars

\* C4 witness: a validated cycle boundary with mismatching counts.
C4_Witness ==
    /\ Called("OnTriggerSyncronization(true)")
    /\ Called("OnTriggerStateDecodingError")
    /\ engine.validated # <<TriggerLength, 0, 0>>
    /\ engine.totalTriggerErrorCounter > 0

\* the fields OnTriggerStateDecodingError may write
ErrorBookkeeping == {"totalTriggerErrorCounter", "someSortOfTriggerError", "calls", "warnings"}

\* C5: handling a count mismatch changes only error bookkeeping; the
\* synchronized flag and the tooth index are as before, and the edge that
\* found the mismatch leaves the decoder synchronized at a valid index.
C5_DecodeErrorKeepsSync ==
    /\ \A f \in (DOMAIN engine) \ ErrorBookkeeping :
          OnTriggerStateDecodingError(engine)[f] = engine[f]
    /\ Called("OnTriggerStateDecodingError") =>
          engine.shaft_is_synchronized /\ isValidIndex(engine)

\* C5 witness: the decode-error callback ran and the decoder is synchronized.
C5_Witness ==
    /\ Called("OnTriggerStateDecodingError")
    /\ engine.shaft_is_synchronized
    /\ engine.current_index = 0

\* C6: fed the exact periodic edge sequence of the waveform, the decoder is
\* synchronized once two complete cycles were fed, never loses
\* synchronization, and counts no decode error.
C6_PeriodicSequenceSynchronizes ==
    [][ /\ engine.shaft_is_synchronized => engine'.shaft_is_synchronized
        /\ gen'.fed >= 2 * TriggerLength => engine'.shaft_is_synchronized
        /\ engine'.totalTriggerErrorCounter = 0 ]_vars

\* C6 witness: three complete cycles fed, synchronized, no error counted.
C6_Witness ==
    /\ gen.fed >= 3 * TriggerLength
    /\ engine.shaft_is_synchronized
    /\ engine.totalTriggerErrorCounter = 0
    /\ Called("OnTriggerSyncronization(true)")

\* C7: while the decoder is synchronized its tooth index is inside the
\* waveform.
C7_IndexInRangeWhileSynchronized ==
    engine.shaft_is_synchronized =>
        (0 <= engine.current_index /\ engine.current_index < getLength(engine.triggerShape))

\* C7 witness: a synchronized decoder at the last tooth of the waveform.
C7_Witness ==
    /\ engine.shaft_is_synchronized
    /\ engine.current_index = TriggerLength - 1

\* C8: right after an out-of-range tooth index was reported the decoder is
\* not synchronized.
C8_InvalidIndexDesynchronizes ==
    Called("OnTriggerInvalidIndex") => ~engine.shaft_is_synchronized

\* C8 witness: the index left the table of a turning engine.
C8_Witness ==
    /\ Called("OnTriggerInvalidIndex")
    /\ engine.rpmValue # 0
    /\ ~engine.shaft_is_synchronized

Stopped == engine.rpmState = "STOPPED" /\ engine.rpmValue = 0
\* an edge was seen, and none for more than a second
Silent ==
    /\ engine.m_lastEventTimer # NEVER
    /\ nowNt - engine.m_lastEventTimer > NT_PER_SECOND

C11_StoppedEngineStopsPins ==
    (/\ lastOp = "slow"
     /\ ~engine.isSpinning
     /\ ~engine.isRunningPwmTest
     /\ ~isRunningBenchTest(engine))
        => (Called("stopPins") /\ ~engine.pinsOn)

\* C11 witness: the pass that found a turning engine silent for half a
\* second switched the outputs off; no test was running.
C11_Witness ==
    /\ lastOp = "slow"
    /\ ~engine.isSpinning
    /\ engine.m_lastEventTimer # NEVER
    /\ nowNt - engine.m_lastEventTimer = TicksPerHalfSecond
    /\ ~engine.isRunningPwmTest
    /\ ~isRunningBenchTest(engine)
    /\ Called("stopPins")
    /\ engine.shaft_is_synchronized

\* the waveform under construction or built
Shape == engine.triggerShape
EventAngle(i) == Shape.events[i].angle
RECURSIVE SumDeltas(_, _, _)
SumDeltas(s, lo, hi) ==
    IF lo > hi THEN 0
    ELSE IF lo = hi THEN EventDelta(s, lo)
    ELSE SumDeltas(s, lo, (lo + hi) \div 2) + SumDeltas(s, ((lo + hi) \div 2) + 1, hi)

C16_DeltasSumToCycle ==
    lastOp = "configured" =>
        /\ Len(Shape.events) > 0
        /\ SumDeltas(Shape, 1, Len(Shape.events)) = FullCycle
        /\ EventAngle(Len(Shape.events)) = FullCycle
        /\ \A i \in 1 .. Len(Shape.events) : EventDelta(Shape, i) > 0

\* C16 witness: the Ford ST170 waveform is complete, ten events.
C16_Witness ==
    /\ lastOp = "configured"
    /\ cfgThread.triggerType = "TT_FORD_ST170"
    /\ Len(Shape.events) = 10
    /\ EventAngle(1) = Deg(80)

\* the gap criterion matched at the edge handled last
GapMatched ==
    Called("OnTriggerSyncronization(true)") \/ Called("OnTriggerSyncronization(false)")
\* the first event after the gap of the 60-2 wheel: the rise at 702 degrees
VwSyncEvent == CHOOSE i \in 1 .. Len(Shape.events) : EventAngle(i) = Deg(702)

\* C17: with the 60-2 wheel turning at constant speed, the gap criterion
\* matches at the first event after the gap and at no other event of a
\* revolution, as an edge of the stream and as an event of the waveform, and
\* at that edge the decoder is synchronized with tooth index 0.
C17_GapMatchesOncePerRevolution ==
    [][ lastOp' = "shaft" =>
          /\ GapMatched' => gen.index = VwSyncEvent
          /\ (gen.index = VwSyncEvent /\ gen.fed >= 2) => GapMatched'
          /\ GapMatched' => (engine'.shaft_is_synchronized /\ engine'.current_index = 0)
          /\ SynchPoints(Shape) = {VwSyncEvent}
          /\ engine.triggerShapeSynchPointIndex = VwSyncEvent ]_vars

\* C17 witness: in the second revolution fed, the decoder locks again at the
\* first event after the gap, with the counts of a complete revolution.
C17_Witness ==
    /\ lastOp = "shaft"
    /\ Called("OnTriggerSyncronization(true)")
    /\ gen.fed > 2 * Len(Shape.events)
    /\ engine.validated = <<116, 0, 0>>
    /\ engine.shaft_is_synchronized
    /\ engine.current_index = 0
    /\ engine.totalTriggerErrorCounter = 0

\* the listener calls and settings the rebuild made for the waveform it built
WaveformSetUp(e) ==
    /\ e.engineCycleEventCount = getLength(e.triggerShape)
    /\ e.triggerShapeSynchPointIndex = calculateTriggerSynchPoint(e.triggerShape)
    /\ e.outputSignalsFor = e.triggerType

\* C12: a run of Engine::initializeTriggerWaveform that leaves
\* shapeDefinitionError set calculates no sync point, keeps
\* engineCycleEventCount and prepares no output signals; a run that leaves it
\* clear does all three.
C12_NoSetUpForBrokenShape ==
    [][ lastOp' = "reinit" =>
          IF engine'.triggerShape.shapeDefinitionError
          THEN /\ ~Called("calculateTriggerSynchPoint")'
               /\ ~Called("prepareOutputSignals")'
               /\ engine'.engineCycleEventCount = engine.engineCycleEventCount
               /\ engine'.outputSignalsFor = engine.outputSignalsFor
          ELSE /\ Called("calculateTriggerSynchPoint")'
               /\ Called("prepareOutputSignals")'
               /\ WaveformSetUp(engine') ]_vars

\* C12 witness: a rebuild for a trigger type without events left the error
\* set and the event count of the six-event waveform configured before.
C12_Witness ==
    /\ lastOp = "reinit"
    /\ engine.triggerShape.shapeDefinitionError
    /\ getLength(engine.triggerShape) = 0
    /\ engine.engineCycleEventCount = 6
    /\ engine.outputSignalsFor = "TT_SKODA_FAVORIT"

\* C14: when the trigger configuration is changed while the decoder is
\* synchronized and angle-based events are pending, the re-initialisation
\* leaves the decoder not synchronized and the list of pending events empty.
C14_ReinitResetsDecoderAndEvents ==
    [][ (/\ lastOp' = "reinit"
         /\ engine'.triggerType # engine.triggerType
         /\ engine.shaft_is_synchronized
         /\ engine.angleBasedEvents # {})
        => /\ ~engine'.shaft_is_synchronized
           /\ engine'.angleBasedEvents = {} ]_vars

\* event id is on the list of pending events
IsPending(e, id) == \E ev \in e.angleBasedEvents : ev.id = id

\* the pending events whose tooth never came: the edge made a synchronized
\* decoder start the cycle again before it had reached that tooth
PassedEvents(before, after) ==
    {ev \in before.angleBasedEvents :
        /\ before.shaft_is_synchronized
        /\ after.shaft_is_synchronized
        /\ after.current_index = 0
        /\ before.current_index < ev.triggerEventIndex
        /\ ev.triggerEventIndex < getLength(after.triggerShape)}

\* C19: a registered angle-based event is fired at most once; it is fired
\* only while it is pending and leaves the list when it fires; and unless
\* the trigger is reconfigured it leaves the list only by being fired, so
\* that every registered event is either still pending or was fired once.
C19_EventsFireExactlyOnce ==
    [][ \A id \in EventIds :
          /\ engine'.firedCount[id] <= 1
          /\ engine'.firedCount[id] \in {engine.firedCount[id], engine.firedCount[id] + 1}
          /\ engine'.firedCount[id] # engine.firedCount[id]
                => (IsPending(engine, id) /\ ~IsPending(engine', id) /\ id \in engine'.fired)
          /\ (lastOp' # "reinit" /\ IsPending(engine, id) /\ ~IsPending(engine', id))
                => engine'.firedCount[id] = engine.firedCount[id] + 1
          /\ lastOp' # "reinit"
                => engine'.registeredCount[id] =
                       engine'.firedCount[id] + (IF IsPending(engine', id) THEN 1 ELSE 0) ]_vars

\* C19 witness: both events were registered and fired, one of them at its
\* tooth by the last edge.
C19_Witness ==
    /\ lastOp = "shaft"
    /\ engine.fired # {}
    /\ engine.firedLate = {}
    /\ \A id \in EventIds : engine.registeredCount[id] = 1 /\ engine.firedCount[id] = 1

\* C20: a pending event whose tooth has passed when the events are
\* evaluated is fired by that edge and leaves the list, and
\* orderingErrorCounter grows by one for each such event.
C20_PassedEventFiredAndCounted ==
    [][ lastOp' = "shaft" =>
          /\ \A ev \in PassedEvents(engine, engine') :
                /\ ev.id \in engine'.fired
                /\ ev \notin engine'.angleBasedEvents
                /\ engine'.firedCount[ev.id] = engine.firedCount[ev.id] + 1
          /\ engine'.orderingErrorCounter =
                engine.orderingErrorCounter + Cardinality(PassedEvents(engine, engine')) ]_vars

\* C20 witness: an edge fired an event late and counted the ordering error.
C20_Witness ==
    /\ lastOp = "shaft"
    /\ engine.firedLate # {}
    /\ engine.orderingErrorCounter = Cardinality(engine.firedLate)
    /\ \A id \in engine.firedLate : engine.firedCount[id] = 1

\* the state of the decoder
DecoderState(e) ==
    <<e.current_index, e.eventCount, e.shaft_is_synchronized, e.toothed_previous_time,
      e.toothDurations, e.totalTriggerErrorCounter, e.someSortOfTriggerError>>

TriggerCore(e) ==
    [e EXCEPT !.tsOutputChannels = TsOutputChannelsInit,
              !.calls = <<>>, !.warnings = {}, !.validated = <<>>,
              !.fired = {}, !.firedLate = {}]

\* C21: updateTunerStudioState publishes the error counters and, in debug
\* mode DBG_TRIGGER_COUNTERS, the hardware-edge counters; the published
\* values equal the values of the trigger core at the call, and the call
\* changes nothing in the trigger core.
C21_PublishedCountersEqualCore ==
    [][ lastOp' = "publish" =>
          /\ TriggerCore(engine') = TriggerCore(engine)
          /\ engine'.tsOutputChannels.totalTriggerErrorCounter = engine.totalTriggerErrorCounter
          /\ engine'.tsOutputChannels.orderingErrorCounter = engine.orderingErrorCounter
          /\ Called("DBG_TRIGGER_COUNTERS")' =>
                /\ engine'.tsOutputChannels.debugIntField1 =
                       engine.hwEventCounters["SHAFT_PRIMARY_FALLING"]
                /\ engine'.tsOutputChannels.debugIntField2 =
                       engine.hwEventCounters["SHAFT_SECONDARY_FALLING"]
                /\ engine'.tsOutputChannels.debugFloatField1 =
                       engine.hwEventCounters["SHAFT_PRIMARY_RISING"]
                /\ engine'.tsOutputChannels.debugFloatField2 =
                       engine.hwEventCounters["SHAFT_SECONDARY_RISING"] ]_vars

\* C22: a pass of the periodic slow callback invokes writeToFlashIfPending
\* only if the engine is stopped or direct self-stimulation is active; a pass
\* in which the engine turns on real trigger input does not invoke it.
C22_FlashWriteOnlyWhenStopped ==
    [][ lastOp' = "slow" =>
          (Called("writeToFlashIfPending")'
              <=> (engine'.directSelfStimulation \/ engine'.rpmState = "STOPPED")) ]_vars

\* C22 witness: a pass without the write while the engine turns, no
\* self-stimulation, after edges were handled.
C22_Witness ==
    /\ lastOp = "slow"
    /\ ~Called("writeToFlashIfPending")
    /\ engine.rpmState # "STOPPED"
    /\ ~engine.directSelfStimulation
    /\ engine.m_lastEventTimer # NEVER

\* C23: a query of isInShutdownMode made less than one second after the
\* latest stop request returns true, whatever the spinning state, the idle
\* motor and the battery voltage are.
C23_ShutdownModeForOneSecond ==
    [][ (/\ lastOp' = "queryShutdown"
         /\ engine.stopRequestedAt # 0
         /\ nowNt - engine.stopRequestedAt < NT_PER_SECOND)
        => Called("isInShutdownMode=true")' ]_vars

\* C23 witness: the query returned true for a stopped engine with an idle
\* motor at rest and the ignition voltage back, before the second was over.
C23_Witness ==
    /\ lastOp = "queryShutdown"
    /\ Called("isInShutdownMode=true")
    /\ nowNt - engine.stopRequestedAt = NT_PER_SECOND - 1
    /\ ~engine.isSpinning
    /\ ~engine.idleMotorBusy
    /\ engine.vBatt = 9

\* the shutdown was cancelled by the step
ShutdownCancelled ==
    /\ engine'.ignitionOnTimeNt = nowNt
    /\ engine'.stopEngineRequestTimeNt = 0

\* C24: checkShutdown cancels the shutdown only when the ignition is off,
\* no stop was requested or more than half a second passed since, vBatt is
\* above 8 V and isInShutdownMode is false, and then it sets ignitionOnTimeNt
\* to now and clears the request; in every other case it changes neither
\* field.
C24_ShutdownCancelledOnlyWhenComplete ==
    [][ lastOp' = "checkShutdown" =>
          IF /\ engine.ignitionOnTimeNt = 0
             /\ (engine.stopEngineRequestTimeNt = 0
                    \/ nowNt - engine.stopEngineRequestTimeNt > TicksPerHalfSecond)
             /\ engine.vBatt > 8
             /\ ~isInShutdownMode(engine, nowNt).result
          THEN ShutdownCancelled /\ Called("Cancel the engine shutdown")'
          ELSE /\ engine'.ignitionOnTimeNt = engine.ignitionOnTimeNt
               /\ engine'.stopEngineRequestTimeNt = engine.stopEngineRequestTimeNt
               /\ ~Called("Cancel the engine shutdown")' ]_vars

\* C24 witness: a requested shutdown was cancelled.
C24_Witness ==
    /\ lastOp = "checkShutdown"
    /\ Called("Cancel the engine shutdown")
    /\ engine.stopRequestedAt # 0
    /\ engine.ignitionOnTimeNt = nowNt
    /\ engine.stopEngineRequestTimeNt = 0

\* the threads between their return from lockSpi(device) and unlockSpi
SpiHolders(device) ==
    {thread \in SpiThreads :
        engine.spiThread[thread].pc = "locked" /\ engine.spiThread[thread].device = device}

C26_StopsBeforeStarts ==
    /\ \A i, j \in 1 .. Len(engine.hwLog) :
          i < j => ~(engine.hwLog[i].kind = "start" /\ engine.hwLog[j].kind = "stop")
    /\ \A j \in 1 .. Len(engine.hwLog) :
          engine.hwLog[j].name = "startTriggerInputPins"
             => \E i \in 1 .. j - 1 : engine.hwLog[i].name = "stopTriggerInputPins"

\* C26 witness: the function returned after it stopped all four SPI buses
\* and started the trigger input pins and the idle hardware.
C26_Witness ==
    /\ lastOp = "applied"
    /\ Len(engine.hwLog) = Len(HardwareSteps)
    /\ \E j \in 1 .. Len(engine.hwLog) : engine.hwLog[j].name = "startTriggerInputPins"
    /\ \E j \in 1 .. Len(engine.hwLog) : engine.hwLog[j].name = "stopSpi(SPI_DEVICE_4)"

\* C27: waitForSlowAdc returns only once slowAdcCounter > lastAdcCounter;
\* slowAdcCounter advances only by a successful read of the slow ADC;
\* initHardware is past the ADC initialisation only with a complete set of
\* values read; and with reads that succeed again and again the wait ends.
C27_WaitForSlowAdc ==
    /\ [][ /\ lastOp' = "waitForSlowAdc" => engine.slowAdcCounter > engine.lastAdcCounter
           /\ engine'.slowAdcCounter # engine.slowAdcCounter
                 => /\ lastOp' = "slowAdc"
                    /\ engine'.slowAdcCounter = engine.slowAdcCounter + 1
                    /\ engine'.slowAdcErrorsCount = engine.slowAdcErrorsCount
           /\ engine'.initHardware = "initSoftwareKnock" => engine'.slowAdcCounter >= 1 ]_vars
    /\ (engine.initHardware = "waitForSlowAdc") ~> (engine.initHardware = "initSoftwareKnock")

\* C27 witness: initHardware went on after reads that failed and two reads
\* that succeeded.
C27_Witness ==
    /\ lastOp = "waitForSlowAdc"
    /\ engine.initHardware = "initSoftwareKnock"
    /\ engine.slowAdcCounter = 2
    /\ engine.slowAdcErrorsCount > 0

\* C28: engineCycle is 360 or 720 in every state, the one right after
\* construction and the ones before a trigger configuration is applied
\* included; it is never zero.
C28_EngineCycleNeverZero == engine.engineCycle \in {360, 720}

\* C28 witness: the engine right after construction, no trigger shape built
\* yet, with its cycle set by reset().
C28_Witness ==
    /\ lastOp = "init"
    /\ engine.calls = <<>>
    /\ ~engine.shaft_is_synchronized
    /\ engine.engineCycle = getEngineCycle("FOUR_STROKE_CRANK_SENSOR")

\* C30: the first synchronization is not validated: a trigger event whose
\* decoding calls OnTriggerSyncronization(false) leaves
\* totalTriggerErrorCounter, the trigger decoder error pin and the
\* triggerErrorDetection buffer as they were, whatever events were counted.
C30_FirstSynchronizationNotValidated ==
    [][ Called("OnTriggerSyncronization(false)")'
          => /\ engine'.totalTriggerErrorCounter = engine.totalTriggerErrorCounter
             /\ engine'.triggerDecoderErrorPin = engine.triggerDecoderErrorPin
             /\ engine'.triggerErrorDetection = engine.triggerErrorDetection
             /\ engine'.validated = <<>> ]_vars

\* C30 witness: a first synchronization after a revolution had counted an
\* error, the pin still set and the buffer still holding it.
C30_Witness ==
    /\ Called("OnTriggerSyncronization(false)")
    /\ engine.shaft_is_synchronized
    /\ engine.totalTriggerErrorCounter > 0
    /\ engine.triggerDecoderErrorPin
    /\ engine.triggerErrorDetection # <<>>

\* C29: every console write that changes the configuration adds exactly one
\* to the global configuration version, which leaves the version above the
\* one the configuration listeners hold; that one moves only in the
\* housekeeping pass, to the global version and with the listener run, so
\* every such change is detected by the next pass.
C29_ConsoleWriteBumpsVersion ==
    [][ /\ engine'.engineConfiguration # engine.engineConfiguration
          => /\ lastOp' = "console"
             /\ engine'.globalConfigurationVersion = engine.globalConfigurationVersion + 1
             /\ engine'.versionForConfigurationListeners < engine'.globalConfigurationVersion
        /\ engine'.globalConfigurationVersion >= engine.globalConfigurationVersion
        /\ engine'.versionForConfigurationListeners # engine.versionForConfigurationListeners
          => /\ lastOp' = "slow"
             /\ Called("updateAccelParameters")'
             /\ engine'.versionForConfigurationListeners = engine.globalConfigurationVersion
        /\ (lastOp' = "slow" /\ engine.versionForConfigurationListeners < engine.globalConfigurationVersion)
          => Called("updateAccelParameters")' ]_vars

\* C29 witness: two writes changed the configuration between two passes and
\* the pass that followed ran the listener.
C29_Witness ==
    /\ lastOp = "slow"
    /\ Called("updateAccelParameters")
    /\ engine.globalConfigurationVersion = 3
    /\ engine.versionForConfigurationListeners = 3
    /\ engine.engineConfiguration[0] = 1
    /\ engine.engineConfiguration[1] = 65537

\* C31: isSpinning becomes true only by a trigger event; a watchdog pass
\* during a PWM test changes nothing; a pass over a spinning engine less than
\* half a second after the last trigger event changes nothing; a pass over a
\* spinning engine half a second or more after it leaves isSpinning and
\* ignitionEvents.isReady false.
C31_WatchdogTransitions ==
    /\ [](/\ engine.isRunningPwmTest => watchdog(engine, nowNt) = engine
          /\ (engine.isSpinning /\ ~engine.isRunningPwmTest)
               => IF nowNt - engine.m_lastEventTimer < TicksPerHalfSecond
                  THEN watchdog(engine, nowNt) = engine
                  ELSE /\ ~watchdog(engine, nowNt).isSpinning
                       /\ ~watchdog(engine, nowNt).ignitionEventsReady)
    /\ [][ /\ (~engine.isSpinning /\ engine'.isSpinning) => lastOp' = "shaft"
           /\ lastOp' = "slow" =>
                 /\ engine'.isSpinning = watchdog(engine, nowNt).isSpinning
                 /\ engine'.ignitionEventsReady = watchdog(engine, nowNt).ignitionEventsReady
                 /\ engine'.pinsOn = watchdog(engine, nowNt).pinsOn ]_vars

\* C31 witness: a pass exactly half a second after the last trigger event
\* left the engine, which that event had set spinning, not spinning and its
\* ignition events not ready; no PWM test runs.
C31_Witness ==
    /\ lastOp = "slow"
    /\ ~engine.isRunningPwmTest
    /\ engine.m_lastEventTimer # NEVER
    /\ nowNt - engine.m_lastEventTimer = TicksPerHalfSecond
    /\ ~engine.isSpinning
    /\ ~engine.ignitionEventsReady
    /\ engine.rpmState # "STOPPED"

\* C32: after a validated cycle boundary the trigger decoder error pin is on
\* exactly when the event counts of that cycle mismatched, and exactly one
\* entry, holding that result, was added to triggerErrorDetection.
C32_PinAndBufferFollowValidation ==
    [][ (lastOp' = "shaft" /\ Called("OnTriggerSyncronization(true)")') =>
          LET mismatched == \E ch \in Channels :
                  engine'.validated[ch] # expectedEventCount(engine.triggerShape)[ch]
              old == engine.triggerErrorDetection
              kept == IF Len(old) < ErrorBufferSize THEN old ELSE Tail(old)
          IN  /\ engine'.triggerDecoderErrorPin = mismatched
              /\ engine'.triggerErrorDetection = Append(kept, mismatched) ]_vars

\* C32 witness: a validated cycle boundary with matching counts right after
\* one with mismatching counts: the pin is off again, and the buffer holds
\* the error followed by the good cycle.
C32_Witness ==
    /\ lastOp = "shaft"
    /\ Called("OnTriggerSyncronization(true)")
    /\ engine.validated = expectedEventCount(engine.triggerShape)
    /\ ~engine.triggerDecoderErrorPin
    /\ engine.triggerErrorDetection = <<TRUE, FALSE>>

\* C33: totalTriggerErrorCounter never decreases over the trigger callbacks,
\* and it grows only in OnTriggerStateDecodingError, by one: the other
\* callbacks applied to any reachable state leave it, OnTriggerSyncronization
\* adds to it only through the decode error it reports.
C33_ErrorCounterMonotonic ==
    /\ [](/\ OnTriggerStateProperState(engine, nowNt).totalTriggerErrorCounter
                = engine.totalTriggerErrorCounter
          /\ OnTriggerSynchronizationLost(engine).totalTriggerErrorCounter
                = engine.totalTriggerErrorCounter
          /\ OnTriggerInvalidIndex(engine, engine.current_index).totalTriggerErrorCounter
                = engine.totalTriggerErrorCounter
          /\ OnTriggerStateDecodingError(engine).totalTriggerErrorCounter
                = engine.totalTriggerErrorCounter + 1
          /\ \A wasSynchronized, obdWarning \in BOOLEAN :
                OnTriggerSyncronization(engine, wasSynchronized, obdWarning).totalTriggerErrorCounter
                  = engine.totalTriggerErrorCounter
                      + (IF wasSynchronized /\ validateEventCounters(engine) THEN 1 ELSE 0))
    /\ [][ /\ engine'.totalTriggerErrorCounter >= engine.totalTriggerErrorCounter
           /\ engine'.totalTriggerErrorCounter # engine.totalTriggerErrorCounter
                 => /\ Called("OnTriggerStateDecodingError")'
                    /\ engine'.totalTriggerErrorCounter = engine.totalTriggerErrorCounter + 1 ]_vars

\* C33 witness: synchronization was lost after a decode error was
\* counted, and the count is as it was.
C33_Witness ==
    /\ lastOp = "shaft"
    /\ Called("OnTriggerSynchronizationLost")
    /\ ~Called("OnTriggerStateDecodingError")
    /\ engine.totalTriggerErrorCounter >= 1

====
